---------------------------- MODULE Spec2Model ----------------------------
(***************************************************************************)
(* Model of the client-side analysis layer of dataanalyzer-pro:            *)
(*   - inferFieldType            (src/src/utils/file/processing.ts)        *)
(*   - the time-series panels    (src/unnamed/part_009, part_010)          *)
(* JS values are modelled as tagged records, strings as sequences of       *)
(* one-character strings so that Number() and Date.parse() are computed    *)
(* from the characters.                                                    *)
(***************************************************************************)
EXTENDS Integers, Sequences, FiniteSets, TLC

VARIABLES
    values,      \* the column handed to inferFieldType
    inferred,    \* "pending" until inferFieldType has returned, then its result
    mounted,     \* the time-series component the behaviour follows
    data,        \* ARIMA: props.data; TimeSeriesAnalysis: the data state
    params,      \* the params state of the mounted parameter panel
    analyzerArgs,      \* the analyzers constructed by the latest step
    onAnalyzeCall,     \* the props.onAnalyze call made by the latest step
    thrown,            \* the error that escaped the latest step's handler
    lastStep,          \* the handler the latest step ran
    timeSeriesModel, forecastData, modelPerformance, isLoading, error,
    timeSeriesResults, \* the other state of TimeSeriesAnalysis
    effectPending,     \* the [timeSeriesModel, data] effect is due to run
    forecastPeriods,   \* ARIMA: props.forecastPeriods
    file,              \* the File handed to useFileUpload's handleFileUpload
    pc,                \* the position of the upload
    isUploading, uploadError,        \* the state of useFileUpload
    uploadPromise,     \* the promise handleFileUpload returned
    onSuccessArg,      \* the argument of the onSuccess call, if made
    processFileCalls,  \* the calls of processFile made
    workers, terminated,             \* the Workers created / terminated by processFile
    headers, fieldValues, rowCount,  \* the locals of processCSVWithValidation
    unread,            \* the rows of the file the parser has not delivered yet
    result,            \* the ProcessingResult processFile awaits
    procOutcome,       \* the promise processFile returned
    workerRef,         \* useAnalysisWorker: workerRef.current is a Worker
    onmessage,         \* the analyze() call whose handlers the worker carries
    inbox,             \* the messages posted to the worker, not yet handled
    outbox,            \* the worker's events, not yet delivered
    promises,          \* the promises the analyze() calls returned
    viewKind,          \* the text panel the behaviour follows
    viewMounted,       \* it is mounted
    input,             \* the generation of its input (data.fields / field)
    inflight,          \* the generations whose analysis is awaited
    timer,             \* TextMining: the generation the debounce timer is for
    loading, viewError, shownFor,    \* its state: the result shown is shownFor's
    lateWrites,        \* the generations that wrote state when no longer current
    diffInput, diffOrder,            \* the series to difference and the order d
    differenced,       \* the differenced series and the retained values
    restored,          \* the series the inversion gave, once computed
    trendInput, trendFactor,         \* the series handed to analyzeTrend and the factor k
    trends,            \* analyzeTrend of the series and of the scaled series
    db,                \* DuckDBManager: this.db is not null
    dbInstance,        \* the state of the AsyncDuckDB this.db refers to
    isInitializing, initPromise,     \* DuckDBManager's other fields
    initStep,          \* the await the async function of initPromise is at
    lastAttempt,       \* how the latest initialisation attempt ended
    duckCalls,         \* the initialize() and processData() calls made
    uploads,           \* useFileUpload: the handleFileUpload calls made, overlapping
    waypoints, optimizedRoute, optimizationMethod, isOptimizing,
                       \* the state of RouteOptimization
    routeTimer,        \* the pending optimisation timer and what its callback closes over
    nextId,            \* the id the next waypoint gets
    queryHistory, response, queryLoading, showExamples,
                       \* the state of NLQuerySection (queryLoading is its isLoading)
    pendingQueries,    \* the queries whose processing is awaited
    asked,             \* the number of different queries asked so far
    analysisError, analysisResults, progress,
                       \* the state of useAnalysis (its error and results, progress)
    mutationStatus,    \* the status of analysisMutation
    pendingRuns,       \* the runs of mutationFn that are awaited
    runs               \* the number of analyze() calls made

inferVars == <<values, inferred>>

panelVars == <<mounted, data, params, analyzerArgs, onAnalyzeCall, thrown, lastStep>>

tsaVars ==
    <<timeSeriesModel, forecastData, modelPerformance, isLoading, error,
      timeSeriesResults, effectPending>>

fileVars ==
    <<file, pc, isUploading, uploadError, uploadPromise, onSuccessArg,
      processFileCalls, workers, terminated, headers, fieldValues, rowCount,
      unread, result, procOutcome>>

workerVars == <<workerRef, onmessage, inbox, outbox, promises>>

viewVars ==
    <<viewKind, viewMounted, input, inflight, timer, loading, viewError,
      shownFor, lateWrites>>

diffVars == <<diffInput, diffOrder, differenced, restored>>

\* the variables of the components outside the time-series panels
extVars == <<fileVars, workerVars, viewVars, diffVars>>

tsVars == <<inferVars, panelVars, tsaVars, forecastPeriods>>

trendVars == <<trendInput, trendFactor, trends>>

\* the variables of the analysis services and of the remaining views
duckVars ==
    <<db, dbInstance, isInitializing, initPromise, initStep, lastAttempt, duckCalls>>

routeVars ==
    <<waypoints, optimizedRoute, optimizationMethod, isOptimizing, routeTimer, nextId>>

queryVars == <<queryHistory, response, queryLoading, showExamples, pendingQueries, asked>>

analysisVars ==
    <<analysisError, analysisResults, progress, mutationStatus, pendingRuns, runs>>

svcVars == <<trendVars, duckVars, uploads, routeVars, queryVars, analysisVars>>

\* the service variables without those of each component
exceptTrend == <<duckVars, uploads, routeVars, queryVars, analysisVars>>

exceptDuck == <<trendVars, uploads, routeVars, queryVars, analysisVars>>

exceptUploads == <<trendVars, duckVars, routeVars, queryVars, analysisVars>>

exceptRoute == <<trendVars, duckVars, uploads, queryVars, analysisVars>>

exceptQuery == <<trendVars, duckVars, uploads, routeVars, analysisVars>>

exceptAnalysis == <<trendVars, duckVars, uploads, routeVars, queryVars>>

vars == <<inferVars, panelVars, tsaVars, forecastPeriods, extVars, svcVars>>

\* a promise that has not settled; a call that was not made
Pending == [status |-> "pending"]

NotCalled == [called |-> FALSE]

\* no upload is under way
NoFile ==
    /\ file = [none |-> TRUE]
    /\ pc = "none"
    /\ isUploading = FALSE
    /\ uploadError = [code |-> "", message |-> ""]
    /\ uploadPromise = Pending
    /\ onSuccessArg = NotCalled
    /\ processFileCalls = 0
    /\ workers = 0
    /\ terminated = 0
    /\ headers = <<>>
    /\ fieldValues = <<>>
    /\ rowCount = 0
    /\ unread = <<>>
    /\ result = [none |-> TRUE]
    /\ procOutcome = Pending

\* no analysis worker hook is in use
NoWorker ==
    /\ workerRef = FALSE
    /\ onmessage = 0
    /\ inbox = <<>>
    /\ outbox = <<>>
    /\ promises = <<>>

\* no text panel is followed
NoView ==
    /\ viewKind = "none"
    /\ viewMounted = FALSE
    /\ input = 0
    /\ inflight = {}
    /\ timer = 0
    /\ loading = FALSE
    /\ viewError = "null"
    /\ shownFor = 0
    /\ lateWrites = {}

\* no series is differenced
NoDiff ==
    /\ diffInput = <<>>
    /\ diffOrder = 0
    /\ differenced = [done |-> FALSE, series |-> <<>>, leads |-> <<>>]
    /\ restored = [done |-> FALSE, series |-> <<>>]

NoExt == NoFile /\ NoWorker /\ NoView /\ NoDiff

\* no trend is asked for
NoTrend ==
    /\ trendInput = <<>>
    /\ trendFactor = [num |-> 1, den |-> 1]
    /\ trends = [done |-> FALSE, plain |-> "", scaled |-> ""]

\* the DuckDBManager singleton as constructed, no call made
NoDuck ==
    /\ db = FALSE
    /\ dbInstance = "none"
    /\ isInitializing = FALSE
    /\ initPromise = "null"
    /\ initStep = "none"
    /\ lastAttempt = "none"
    /\ duckCalls = <<>>

\* no overlapping uploads are followed
NoUploads == uploads = <<>>

\* no RouteOptimization is mounted
NoRoute ==
    /\ waypoints = <<>>
    /\ optimizedRoute = <<>>
    /\ optimizationMethod = "time"
    /\ isOptimizing = FALSE
    /\ routeTimer = [armed |-> FALSE, waypoints |-> <<>>, method |-> ""]
    /\ nextId = 0

\* no NLQuerySection is mounted
NoQuery ==
    /\ queryHistory = <<>>
    /\ response = [kind |-> "null", query |-> 0]
    /\ queryLoading = FALSE
    /\ showExamples = TRUE
    /\ pendingQueries = <<>>
    /\ asked = 0

\* no useAnalysis hook is in use
NoAnalysis ==
    /\ analysisError = "null"
    /\ analysisResults = 0
    /\ progress = 0
    /\ mutationStatus = "idle"
    /\ pendingRuns = {}
    /\ runs = 0

NoSvc == NoTrend /\ NoDuck /\ NoUploads /\ NoRoute /\ NoQuery /\ NoAnalysis

(***************************************************************************)
(* Bounds of the model.                                                    *)
(***************************************************************************)
\* longest enumerated column (the documented scenario column is added to it)
MaxLen == 3

\* longest series handed to a panel as props.data / initialData
MaxPoints == 2

\* most data rows of an uploaded CSV file
MaxRows == 2

\* largest RMSE a fit reports, in whole units
MaxRmse == 1

\* largest forecastPeriods handed to the ARIMA panel
MaxHorizon == 2

(***************************************************************************)
(* JS values of a raw cell.                                                *)
(***************************************************************************)
Null == [t |-> "null", s |-> <<>>, n |-> 0]

Undefined == [t |-> "undefined", s |-> <<>>, n |-> 0]

Str(chars) == [t |-> "string", s |-> chars, n |-> 0]

NumV(k) == [t |-> "number", s |-> <<>>, n |-> k]

BoolV(b) == [t |-> "boolean", s |-> <<>>, n |-> IF b THEN 1 ELSE 0]

\* a JS number: finite, NaN, or an infinity (v is its sign); NullNum is the
\* null of a number | null field
NaN == [k |-> "nan", v |-> 0]

Fin(x) == [k |-> "fin", v |-> x]

Inf(sign) == [k |-> "inf", v |-> sign]

NullNum == [k |-> "null", v |-> 0]

IsNaN(x) == x.k = "nan"

IsFinite(x) == x.k = "fin"

InfinityChars == <<"I", "n", "f", "i", "n", "i", "t", "y">>

Digits == {"0", "1", "2", "3", "4", "5", "6", "7", "8", "9"}

DigitVal(c) ==
    CASE c = "0" -> 0 [] c = "1" -> 1 [] c = "2" -> 2 [] c = "3" -> 3
      [] c = "4" -> 4 [] c = "5" -> 5 [] c = "6" -> 6 [] c = "7" -> 7
      [] c = "8" -> 8 [] c = "9" -> 9

DigitChar(k) ==
    CASE k = 0 -> "0" [] k = 1 -> "1" [] k = 2 -> "2" [] k = 3 -> "3"
      [] k = 4 -> "4" [] k = 5 -> "5" [] k = 6 -> "6" [] k = 7 -> "7"
      [] k = 8 -> "8" [] k = 9 -> "9"

IsDigits(s) == Len(s) > 0 /\ \A i \in 1..Len(s) : s[i] \in Digits

RECURSIVE DecVal(_)
DecVal(s) ==
    IF s = <<>> THEN 0
    ELSE DecVal(SubSeq(s, 1, Len(s) - 1)) * 10 + DigitVal(s[Len(s)])

RECURSIVE TrimLeft(_)
TrimLeft(s) == IF s # <<>> /\ s[1] = " " THEN TrimLeft(Tail(s)) ELSE s

RECURSIVE TrimRight(_)
TrimRight(s) ==
    IF s # <<>> /\ s[Len(s)] = " " THEN TrimRight(SubSeq(s, 1, Len(s) - 1)) ELSE s

\* Number(string): StringToNumber on the decimal-integer fragment of the
\* StringNumericLiteral grammar (white space trimmed, empty is 0, optional sign)
StringToNumber(s) ==
    LET t == TrimRight(TrimLeft(s)) IN
    IF t = <<>> THEN Fin(0)
    ELSE IF IsDigits(t) THEN Fin(DecVal(t))
    ELSE IF t[1] = "-" /\ IsDigits(Tail(t)) THEN Fin(0 - DecVal(Tail(t)))
    ELSE IF t[1] = "+" /\ IsDigits(Tail(t)) THEN Fin(DecVal(Tail(t)))
    ELSE IF t = InfinityChars \/ t = <<"+">> \o InfinityChars THEN Inf(1)
    ELSE IF t = <<"-">> \o InfinityChars THEN Inf(-1)
    ELSE NaN

\* Number(value)
ToNumber(value) ==
    CASE value.t = "number" -> Fin(value.n)
      [] value.t = "string" -> StringToNumber(value.s)
      [] value.t = "boolean" -> Fin(value.n)
      [] value.t = "null" -> Fin(0)
      [] value.t = "undefined" -> NaN

RECURSIVE NatToStr(_)
NatToStr(k) ==
    IF k < 10 THEN <<DigitChar(k)>>
    ELSE Append(NatToStr(k \div 10), DigitChar(k % 10))

\* String(value)
ToStr(value) ==
    CASE value.t = "string" -> value.s
      [] value.t = "number" ->
            IF value.n < 0 THEN <<"-">> \o NatToStr(0 - value.n) ELSE NatToStr(value.n)
      [] value.t = "boolean" ->
            IF value.n = 1 THEN <<"t", "r", "u", "e">> ELSE <<"f", "a", "l", "s", "e">>
      [] value.t = "null" -> <<"n", "u", "l", "l">>
      [] value.t = "undefined" -> <<"u", "n", "d", "e", "f", "i", "n", "e", "d">>

\* !isNaN(Date.parse(s)) on the ECMAScript date-time string format:
\* YYYY, YYYY-MM and YYYY-MM-DD; any other string of the model is not a date
DateParses(s) ==
    LET year == Len(s) >= 4 /\ IsDigits(SubSeq(s, 1, 4))
        month == Len(s) >= 7 /\ s[5] = "-" /\ IsDigits(SubSeq(s, 6, 7))
                    /\ DecVal(SubSeq(s, 6, 7)) \in 1..12
        day == Len(s) = 10 /\ s[8] = "-" /\ IsDigits(SubSeq(s, 9, 10))
                    /\ DecVal(SubSeq(s, 9, 10)) \in 1..31
    IN  \/ Len(s) = 4 /\ year
        \/ Len(s) = 7 /\ year /\ month
        \/ Len(s) = 10 /\ year /\ month /\ day

(***************************************************************************)
(* inferFieldType                                                          *)
(***************************************************************************)
ExcelLo == 25569

ExcelHi == 50000

\* variant: the filter written v !== undefined && v !== '' (null kept)
NonNullValuesKeepNull(vs) ==
    SelectSeq(vs, LAMBDA v : v.t # "undefined" /\ v # Str(<<>>))

\* values.filter(v => v != null && v !== '')
NonNullValues(vs) ==
    SelectSeq(vs, LAMBDA v : v.t # "null" /\ v.t # "undefined" /\ v # Str(<<>>))

\* variant: the date parse tried before the numeric parse
ValueTypeDateFirst(value) ==
    IF (value.t = "number" /\ value.n > ExcelLo /\ value.n < ExcelHi)
          \/ DateParses(ToStr(value)) THEN "date"
    ELSE IF value.t = "number" \/ (~IsNaN(ToNumber(value)) /\ value # Str(<<>>)) THEN "number"
    ELSE "string"

\* variant: a fourth type returned for boolean cells
ValueTypeBoolean(value) ==
    IF value.t = "boolean" THEN "boolean"
    ELSE IF value.t = "number" /\ value.n > ExcelLo /\ value.n < ExcelHi THEN "date"
    ELSE IF value.t = "number" \/ (~IsNaN(ToNumber(value)) /\ value # Str(<<>>)) THEN "number"
    ELSE IF DateParses(ToStr(value)) THEN "date"
    ELSE "string"

\* the callback of nonNullValues.map
ValueType(value) ==
    IF value.t = "number" /\ value.n > ExcelLo /\ value.n < ExcelHi THEN "date"
    ELSE IF value.t = "number" \/ (~IsNaN(ToNumber(value)) /\ value # Str(<<>>)) THEN "number"
    ELSE IF DateParses(ToStr(value)) THEN "date"
    ELSE "string"

\* variant: the uniqueTypes.length === 2 test left out
AggregateNoLength(types) ==
    LET uniqueTypes == {types[i] : i \in 1..Len(types)} IN
    IF Cardinality(uniqueTypes) = 1 THEN CHOOSE t \in uniqueTypes : TRUE
    ELSE IF "number" \in uniqueTypes /\ "string" \in uniqueTypes THEN "number"
    ELSE "string"

\* variant: every mixed column is a string column
AggregateStrict(types) ==
    LET uniqueTypes == {types[i] : i \in 1..Len(types)} IN
    IF Cardinality(uniqueTypes) = 1 THEN CHOOSE t \in uniqueTypes : TRUE
    ELSE "string"

\* [...new Set(types)] and the three returns that follow it
Aggregate(types) ==
    LET uniqueTypes == {types[i] : i \in 1..Len(types)} IN
    IF Cardinality(uniqueTypes) = 1 THEN CHOOSE t \in uniqueTypes : TRUE
    ELSE IF "number" \in uniqueTypes /\ Cardinality(uniqueTypes) = 2
            /\ "string" \in uniqueTypes THEN "number"
    ELSE "string"

inferFieldType(vs) ==
    LET nonNullValues == NonNullValues(vs) IN
    IF Len(nonNullValues) = 0 THEN "string"
    ELSE Aggregate([i \in 1..Len(nonNullValues) |-> ValueType(nonNullValues[i])])

(***************************************************************************)
(* Columns the inference is run on.                                        *)
(***************************************************************************)
CellPool ==
    { Null, Undefined, Str(<<>>),
      NumV(7), NumV(2024), NumV(25569), NumV(30000),
      Str(<<"1">>), Str(<<"2">>), Str(<<"4">>), Str(<<"a", "b", "c">>),
      Str(<<"2", "0", "2", "4", "-", "0", "1", "-", "1", "5">>),
      BoolV(TRUE) }

\* the column of the documented scenario: ["1","2","abc","4"]
ScenarioColumn ==
    <<Str(<<"1">>), Str(<<"2">>), Str(<<"a", "b", "c">>), Str(<<"4">>)>>

Columns ==
    UNION {[1..k -> CellPool] : k \in 0..MaxLen} \cup {ScenarioColumn}

\* no time-series component is mounted
NoPanel ==
    /\ mounted = "none"
    /\ data = <<>>
    /\ params = [none |-> TRUE]
    /\ analyzerArgs = {}
    /\ onAnalyzeCall = [called |-> FALSE, arg |-> <<>>]
    /\ thrown = ""
    /\ lastStep = "mount"
    /\ timeSeriesModel = "arima"
    /\ forecastData = <<>>
    /\ modelPerformance = [set |-> FALSE, rmse |-> Fin(0)]
    /\ isLoading = FALSE
    /\ error = "null"
    /\ timeSeriesResults = <<>>
    /\ effectPending = FALSE
    /\ forecastPeriods = 0

InitInfer ==
    /\ values \in Columns
    /\ inferred = "pending"
    /\ NoPanel
    /\ NoExt
    /\ NoSvc

\* a call inferFieldType(values) from processCSVWithValidation / processExcelWithValidation
Infer ==
    /\ inferred = "pending"
    /\ inferred' = inferFieldType(values)
    /\ UNCHANGED <<values, panelVars, tsaVars, forecastPeriods, extVars, svcVars>>

NextInfer == Infer

SpecInfer == InitInfer /\ [][NextInfer]_vars

(***************************************************************************)
(* Conversions used by the time-series panels.  Fractional numbers (the    *)
(* smoothing weights, the series values, RMSE) are fixed-point with two    *)
(* decimals, the step of the panels' inputs; timestamps are epoch days     *)
(* (epoch milliseconds exceed the checker's integers).                     *)
(***************************************************************************)
FloatScale == 100

RECURSIVE DigitPrefix(_)
DigitPrefix(s) ==
    IF s # <<>> /\ s[1] \in Digits THEN <<s[1]>> \o DigitPrefix(Tail(s)) ELSE <<>>

HasPrefix(s, pre) == Len(s) >= Len(pre) /\ SubSeq(s, 1, Len(pre)) = pre

\* parseInt(s): leading white space, an optional sign, the longest digit prefix
ParseInt(s) ==
    LET t == TrimLeft(s)
        neg == t # <<>> /\ t[1] = "-"
        body == IF t # <<>> /\ t[1] \in {"-", "+"} THEN Tail(t) ELSE t
        ds == DigitPrefix(body)
    IN  IF ds = <<>> THEN NaN
        ELSE Fin(IF neg THEN 0 - DecVal(ds) ELSE DecVal(ds))

\* parseFloat(s), kept to two decimals: sign, Infinity, digits[.digits]
ParseFloat(s) ==
    LET t == TrimLeft(s)
        neg == t # <<>> /\ t[1] = "-"
        body == IF t # <<>> /\ t[1] \in {"-", "+"} THEN Tail(t) ELSE t
        ip == DigitPrefix(body)
        rest == SubSeq(body, Len(ip) + 1, Len(body))
        fr == IF rest # <<>> /\ rest[1] = "." THEN DigitPrefix(Tail(rest)) ELSE <<>>
        two == SubSeq(fr \o <<"0", "0">>, 1, 2)
        mag == DecVal(ip) * FloatScale + DecVal(two)
    IN  IF HasPrefix(body, InfinityChars) THEN Inf(IF neg THEN -1 ELSE 1)
        ELSE IF ip = <<>> /\ fr = <<>> THEN NaN
        ELSE Fin(IF neg THEN 0 - mag ELSE mag)

\* days from 1970-01-01 to the civil date y-m-d
DaysFromCivil(y, m, d) ==
    LET yy == IF m <= 2 THEN y - 1 ELSE y
        era == yy \div 400
        yoe == yy - era * 400
        mp == (m + 9) % 12
        doy == (153 * mp + 2) \div 5 + d - 1
        doe == yoe * 365 + yoe \div 4 - yoe \div 100 + doy
    IN  era * 146097 + doe - 719468

\* new Date(cell).getTime(), in days
DateGetTime(cell) ==
    IF cell.t = "string" /\ DateParses(cell.s)
    THEN Fin(DaysFromCivil(
             DecVal(SubSeq(cell.s, 1, 4)),
             IF Len(cell.s) >= 7 THEN DecVal(SubSeq(cell.s, 6, 7)) ELSE 1,
             IF Len(cell.s) = 10 THEN DecVal(SubSeq(cell.s, 9, 10)) ELSE 1))
    ELSE NaN

\* x || 0 on a number
OrZero(x) == IF IsNaN(x) \/ x = Fin(0) THEN Fin(0) ELSE x

\* a < b on JS numbers
NumLess(a, b) ==
    CASE IsNaN(a) \/ IsNaN(b) -> FALSE
      [] a.k = "fin" /\ b.k = "fin" -> a.v < b.v
      [] a.k = "inf" /\ b.k = "fin" -> a.v < 0
      [] a.k = "fin" /\ b.k = "inf" -> b.v > 0
      [] OTHER -> a.v < b.v

(***************************************************************************)
(* The parameter panels: ARIMA, ExponentialSmoothing, SeasonalDecomposition *)
(***************************************************************************)
\* React.useState<ARIMAParams>({...})
ARIMADefaults ==
    [p |-> Fin(1), d |-> Fin(1), q |-> Fin(1), seasonal |-> FALSE,
     seasonalPeriod |-> Fin(12)]

\* React.useState<ExponentialSmoothingParams>({...})
SmoothingDefaults ==
    [alpha |-> Fin(20), beta |-> Fin(10), gamma |-> Fin(5),
     seasonalPeriods |-> Fin(12), seasonalType |-> "additive"]

\* React.useState<SeasonalDecompositionParams>({...})
DecompositionDefaults ==
    [period |-> Fin(12), model |-> "additive", extrapolateTrend |-> FALSE]

\* e.target.value of a type="number" input: empty, or the number typed
TypedInts == {<<>>, <<"0">>}

TypedFloats == {<<>>, <<"1", ".", "5">>}

\* setParams(prev => ({ ...prev, [key]: value }))
handleParamChange(key, value) == [params EXCEPT ![key] = value]

NoCall == [called |-> FALSE, arg |-> <<>>]

\* a handler that makes no call out of the component
Quiet(handler) ==
    /\ analyzerArgs' = {}
    /\ onAnalyzeCall' = NoCall
    /\ thrown' = ""
    /\ lastStep' = handler

\* the onChange handlers of the ARIMA panel's inputs
ARIMAParamChange ==
    /\ mounted = "arima"
    /\ \/ \E key \in {"p", "d", "q"}, typed \in TypedInts :
            params' = handleParamChange(key, ParseInt(typed))
       \/ \E typed \in TypedInts :
            \* the seasonalPeriod input is rendered only while params.seasonal
            /\ params.seasonal
            /\ params' = handleParamChange("seasonalPeriod", ParseInt(typed))
       \/ \E choice \in {"true", "false"} :
            params' = handleParamChange("seasonal", choice = "true")
    /\ Quiet("handleParamChange")
    /\ UNCHANGED <<svcVars, extVars, forecastPeriods, inferVars, mounted, data, tsaVars>>

\* the onChange handlers of the ExponentialSmoothing panel's inputs
SmoothingParamChange ==
    /\ mounted = "smoothing"
    /\ \/ \E key \in {"alpha", "beta", "gamma"}, typed \in TypedFloats :
            params' = handleParamChange(key, ParseFloat(typed))
       \/ \E typed \in TypedInts :
            params' = handleParamChange("seasonalPeriods", ParseInt(typed))
       \/ \E choice \in {"additive", "multiplicative"} :
            params' = handleParamChange("seasonalType", choice)
    /\ Quiet("handleParamChange")
    /\ UNCHANGED <<svcVars, extVars, forecastPeriods, inferVars, mounted, data, tsaVars>>

\* the onChange handlers of the SeasonalDecomposition panel's inputs
DecompositionParamChange ==
    /\ mounted = "decomposition"
    /\ \/ \E typed \in TypedInts :
            params' = handleParamChange("period", ParseInt(typed))
       \/ \E choice \in {"additive", "multiplicative"} :
            params' = handleParamChange("model", choice)
       \/ \E choice \in {"true", "false"} :
            params' = handleParamChange("extrapolateTrend", choice = "true")
    /\ Quiet("handleParamChange")
    /\ UNCHANGED <<svcVars, extVars, forecastPeriods, inferVars, mounted, data, tsaVars>>

\* ExponentialSmoothing.handleAnalyze: onAnalyze(params)
SmoothingHandleAnalyze ==
    /\ mounted = "smoothing"
    /\ onAnalyzeCall' = [called |-> TRUE, arg |-> params]
    /\ analyzerArgs' = {}
    /\ thrown' = ""
    /\ lastStep' = "handleAnalyze"
    /\ UNCHANGED <<svcVars, extVars, forecastPeriods, inferVars, mounted, data, params, tsaVars>>

\* SeasonalDecomposition.handleAnalyze: onAnalyze(params)
DecompositionHandleAnalyze ==
    /\ mounted = "decomposition"
    /\ onAnalyzeCall' = [called |-> TRUE, arg |-> params]
    /\ analyzerArgs' = {}
    /\ thrown' = ""
    /\ lastStep' = "handleAnalyze"
    /\ UNCHANGED <<svcVars, extVars, forecastPeriods, inferVars, mounted, data, params, tsaVars>>

(***************************************************************************)
(* ARIMAAnalyzer (./ARIMAAnalyzer is imported by both callers; its source  *)
(* is not part of the tree, so it is modelled from the specification's     *)
(* contract, section 4.3, 7 and 8).                                        *)
(***************************************************************************)
\* length of the forecast the analyzer returns
DefaultHorizon == 2

Failure(code) == [err |-> code, forecast |-> <<>>, ar |-> <<>>, ma |-> <<>>, rmse |-> Fin(0)]

OrderOf(x) == IF IsFinite(x) /\ x.v > 0 THEN x.v ELSE 0

\* variant: the analyzer throws whatever the series
ARIMAAnalyzeThrowing(series, prm) == {Failure("INSUFFICIENT_DATA")}

\* the results new ARIMAAnalyzer(series, prm).analyze() may produce: an error
\* for an empty or non-finite series, the degenerate flat result for a series
\* shorter than p + d + q + 1, otherwise a fit (the estimation method is left
\* open: the fit is a unit-slope forecast with unit coefficients, its RMSE is
\* drawn)
ARIMAAnalyze(series, prm) ==
    LET n == Len(series)
        last == series[n].value.v
        short == /\ IsFinite(prm.p) /\ IsFinite(prm.d) /\ IsFinite(prm.q)
                 /\ n < prm.p.v + prm.d.v + prm.q.v + 1
        coeffs(len, c) == [i \in 1..len |-> c]
    IN  IF n = 0 THEN {Failure("INSUFFICIENT_DATA")}
        ELSE IF \E i \in 1..n :
                    ~IsFinite(series[i].value) \/ ~IsFinite(series[i].timestamp)
        THEN {Failure("INVALID_INPUT")}
        ELSE IF short
        THEN {[err |-> "",
               forecast |-> [i \in 1..DefaultHorizon |-> Fin(last)],
               ar |-> coeffs(OrderOf(prm.p), 0),
               ma |-> coeffs(OrderOf(prm.q), 0),
               rmse |-> Fin(0)]}
        ELSE {[err |-> "",
               forecast |-> [i \in 1..DefaultHorizon |-> Fin(last + i * FloatScale)],
               ar |-> coeffs(OrderOf(prm.p), FloatScale),
               ma |-> coeffs(OrderOf(prm.q), FloatScale),
               rmse |-> Fin(r * FloatScale)] : r \in {0, MaxRmse}}

(***************************************************************************)
(* ARIMA.handleAnalyze                                                     *)
(***************************************************************************)
TrendWindow == 5

\* item.field || 'value'
FieldName(item) == IF item.field = "" THEN "value" ELSE item.field

\* variant: a group per point
FieldNamesPerPoint(d) == [i \in 1..Len(d) |-> FieldName(d[i])]

\* the keys of fieldGroups, in insertion order
FieldNames(d) ==
    LET F[i \in 0..Len(d)] ==
            IF i = 0 THEN <<>>
            ELSE IF \E j \in 1..Len(F[i - 1]) : F[i - 1][j] = FieldName(d[i])
                 THEN F[i - 1]
                 ELSE Append(F[i - 1], FieldName(d[i]))
    IN  F[Len(d)]

\* fieldGroups[name]
FieldData(d, name) ==
    LET sel == SelectSeq(d, LAMBDA item : FieldName(item) = name)
    IN  [i \in 1..Len(sel) |-> [timestamp |-> sel[i].timestamp, value |-> sel[i].value]]

Ratio(num, den) == [k |-> "ratio", num |-> num, den |-> den]

\* 1 - rmse / range in IEEE arithmetic: x / 0 is Infinity, 0 / 0 is NaN
Confidence(rmse, range) ==
    IF range # 0 THEN Ratio(range - rmse.v, range)
    ELSE IF rmse.v = 0 THEN [k |-> "nan", num |-> 0, den |-> 0]
    ELSE [k |-> "-inf", num |-> 0, den |-> 0]

SeqMax(vs) == CHOOSE x \in {vs[i].v : i \in 1..Len(vs)} : \A j \in 1..Len(vs) : vs[j].v <= x

SeqMin(vs) == CHOOSE x \in {vs[i].v : i \in 1..Len(vs)} : \A j \in 1..Len(vs) : vs[j].v >= x

\* variant: seasonality set whatever params.seasonal
FieldResultAlwaysSeasonal(fieldName, fieldData, prm, analysis) ==
    [field |-> fieldName, trend |-> "stable", seasonality |-> prm.seasonalPeriod,
     forecast |-> analysis.forecast, confidence |-> Ratio(1, 1),
     components |-> [trend |-> <<>>, seasonal |-> <<>>,
                     residual |-> [i \in 1..Len(fieldData) |-> Fin(0)]]]

\* the object the map callback returns for one field
FieldResult(fieldName, fieldData, prm, analysis) ==
    LET vs == [i \in 1..Len(fieldData) |-> fieldData[i].value]
        n == Len(vs)
        lastValues == SubSeq(vs, IF n > TrendWindow THEN n - TrendWindow + 1 ELSE 1, n)
        first == lastValues[1]
        final == lastValues[Len(lastValues)]
    IN  [field |-> fieldName,
         trend |-> IF NumLess(first, final) THEN "increasing"
                   ELSE IF NumLess(final, first) THEN "decreasing"
                   ELSE "stable",
         seasonality |-> IF prm.seasonal THEN prm.seasonalPeriod ELSE NullNum,
         forecast |-> analysis.forecast,
         confidence |-> Confidence(analysis.rmse, SeqMax(vs) - SeqMin(vs)),
         components |->
            [trend |-> [i \in 1..Len(analysis.ar) |->
                            IF i <= n THEN OrZero(vs[i]) ELSE Fin(0)],
             \* Math.sin(2 * Math.PI * i / seasonalPeriod) * 0.1 * values[i], unevaluated
             seasonal |-> [i \in 1..n |->
                            IF prm.seasonal
                            THEN [k |-> "sin", v |-> vs[i].v, i |-> i - 1,
                                  period |-> prm.seasonalPeriod]
                            ELSE Fin(0)],
             residual |-> [i \in 1..n |->
                            Fin(vs[i].v - (IF i <= Len(analysis.ar)
                                           THEN analysis.ar[i] ELSE 0))]]]

\* one result of analyzer.analyze() per field group
RECURSIVE AnalysesOf(_, _)
AnalysesOf(groups, prm) ==
    IF groups = <<>> THEN {<<>>}
    ELSE {<<a>> \o rest : a \in ARIMAAnalyze(Head(groups), prm),
                          rest \in AnalysesOf(Tail(groups), prm)}

ARIMAHandleAnalyze ==
    /\ mounted = "arima"
    /\ LET names == FieldNames(data)
           n == Len(names)
           groups == [i \in 1..n |-> FieldData(data, names[i])]
       IN  \E analyses \in AnalysesOf(groups, params) :
             LET failed == {i \in 1..n : analyses[i].err # ""}
                 stop == IF failed = {} THEN n
                         ELSE CHOOSE i \in failed : \A j \in failed : i <= j
             IN  /\ analyzerArgs' = {[component |-> "arima", series |-> groups[i],
                                      params |-> params] : i \in 1..stop}
                 /\ IF failed = {}
                    THEN /\ onAnalyzeCall' =
                               [called |-> TRUE,
                                arg |-> [i \in 1..n |->
                                    FieldResult(names[i], groups[i], params, analyses[i])]]
                         /\ thrown' = ""
                    ELSE /\ onAnalyzeCall' = NoCall
                         /\ thrown' = analyses[stop].err
    /\ lastStep' = "handleAnalyze"
    /\ UNCHANGED <<svcVars, extVars, forecastPeriods, inferVars, mounted, data, params, tsaVars>>

(***************************************************************************)
(* TimeSeriesAnalysis                                                      *)
(***************************************************************************)
\* the option values of the model select
ModelNames == {"arima", "exponential", "prophet", "lstm"}

\* the params literal of the 'arima' case
ProcessDataParams ==
    [p |-> Fin(1), d |-> Fin(1), q |-> Fin(1), seasonal |-> FALSE,
     seasonalPeriod |-> Fin(12)]

\* the cells of the 'Date' and 'Sales' columns of an uploaded file
DateCells == {Str(<<"2", "0", "2", "4", "-", "0", "1", "-", "1", "5">>), Str(<<"a", "b", "c">>)}

SalesCells == {Str(<<"1", "0">>), Str(<<"a", "b", "c">>)}

Files ==
    UNION {[1..k -> [Date : DateCells, Sales : SalesCells]] : k \in 0..MaxRows}

\* result.data.map(row => ({ timestamp: ..., value: ... }))
ParseRows(rows) ==
    [i \in 1..Len(rows) |->
        [timestamp |-> DateGetTime(rows[i].Date),
         value |-> OrZero(ParseFloat(ToStr(rows[i].Sales)))]]

\* setForecastData, setModelPerformance and setTimeSeriesResults([result])
Publish(forecast, rmse) ==
    /\ forecastData' = forecast
    /\ modelPerformance' = [set |-> TRUE, rmse |-> rmse]
    /\ timeSeriesResults' =
          << [field |-> "Time Series", trend |-> "stable", seasonality |-> NullNum,
              forecast |-> forecast, confidence |-> Ratio(95, 100),
              components |-> [trend |-> <<>>, seasonal |-> <<>>, residual |-> <<>>]] >>
    /\ error' = "null"

\* variant: the data.length tests left out
HasDataUnchecked == TRUE

\* data.length, as tested by processData (!data.length) and by the effect
HasData == Len(data) > 0

\* processData: it awaits nothing, so it runs to its end in one step
processData ==
    IF ~HasData
    THEN /\ analyzerArgs' = {}
         /\ UNCHANGED <<forecastData, modelPerformance, timeSeriesResults, error, isLoading>>
    ELSE /\ isLoading' = FALSE
         /\ IF timeSeriesModel = "arima"
            THEN /\ analyzerArgs' = {[component |-> "arima", series |-> data,
                                      params |-> ProcessDataParams]}
                 /\ \E arimaResults \in ARIMAAnalyze(data, ProcessDataParams) :
                       IF arimaResults.err # ""
                       THEN /\ error' = arimaResults.err
                            /\ UNCHANGED <<forecastData, modelPerformance, timeSeriesResults>>
                       ELSE Publish(arimaResults.forecast, OrZero(arimaResults.rmse))
            ELSE /\ analyzerArgs' = {}
                 /\ Publish(<<>>, Fin(0))

\* the useEffect on [timeSeriesModel, data]
RunEffect ==
    /\ mounted = "timeseries"
    /\ effectPending
    /\ effectPending' = FALSE
    /\ IF HasData
       THEN processData /\ lastStep' = "processData"
       ELSE /\ analyzerArgs' = {}
            /\ lastStep' = "effect"
            /\ UNCHANGED <<forecastData, modelPerformance, timeSeriesResults, error, isLoading>>
    /\ onAnalyzeCall' = NoCall
    /\ thrown' = ""
    /\ UNCHANGED <<svcVars, extVars, forecastPeriods, inferVars, mounted, data, params, timeSeriesModel>>

\* handleModelChange, on a change of the select
HandleModelChange ==
    /\ mounted = "timeseries"
    /\ ~effectPending
    /\ \E name \in ModelNames \ {timeSeriesModel} : timeSeriesModel' = name
    /\ effectPending' = TRUE
    /\ Quiet("handleModelChange")
    /\ UNCHANGED <<svcVars, extVars, forecastPeriods, inferVars, mounted, data, params, forecastData, modelPerformance,
                   isLoading, error, timeSeriesResults>>

\* handleFileUpload: the complete callback of Papa.parse
FileParsed ==
    /\ mounted = "timeseries"
    /\ ~effectPending
    /\ \E rows \in Files : data' = ParseRows(rows)
    /\ error' = "null"
    /\ effectPending' = TRUE
    /\ Quiet("handleFileUpload")
    /\ UNCHANGED <<svcVars, extVars, forecastPeriods, inferVars, mounted, params, timeSeriesModel, forecastData,
                   modelPerformance, isLoading, timeSeriesResults>>

\* handleFileUpload: the error callback of Papa.parse
FileReadError ==
    /\ mounted = "timeseries"
    /\ ~effectPending
    /\ error' = "Error reading CSV file"
    /\ Quiet("handleFileUpload")
    /\ UNCHANGED <<svcVars, extVars, forecastPeriods, inferVars, mounted, data, params, timeSeriesModel, forecastData,
                   modelPerformance, isLoading, timeSeriesResults, effectPending>>

(***************************************************************************)
(* The time-series components, one mounted per behaviour.                  *)
(***************************************************************************)
Point(v, f) == [timestamp |-> Fin(19737), value |-> Fin(v), field |-> f]

PointPool == {Point(500, ""), Point(600, ""), Point(500, "a")}

SeriesPool == UNION {[1..k -> PointPool] : k \in 0..MaxPoints}

InitTS ==
    /\ values = <<>>
    /\ inferred = "pending"
    /\ mounted \in {"arima", "smoothing", "decomposition", "timeseries"}
    /\ data \in IF mounted \in {"arima", "timeseries"} THEN SeriesPool ELSE {<<>>}
    /\ params = CASE mounted = "arima" -> ARIMADefaults
                  [] mounted = "smoothing" -> SmoothingDefaults
                  [] mounted = "decomposition" -> DecompositionDefaults
                  [] OTHER -> [none |-> TRUE]
    /\ analyzerArgs = {}
    /\ onAnalyzeCall = NoCall
    /\ thrown = ""
    /\ lastStep = "mount"
    /\ timeSeriesModel = "arima"
    /\ forecastData = <<>>
    /\ modelPerformance = [set |-> FALSE, rmse |-> Fin(0)]
    /\ isLoading = FALSE
    /\ error = "null"
    /\ timeSeriesResults = <<>>
    /\ effectPending = (mounted = "timeseries")
    /\ forecastPeriods \in IF mounted = "arima" THEN {1, MaxHorizon} ELSE {0}
    /\ NoExt
    /\ NoSvc

NextTS ==
    \/ ARIMAParamChange
    \/ ARIMAHandleAnalyze
    \/ SmoothingParamChange
    \/ SmoothingHandleAnalyze
    \/ DecompositionParamChange
    \/ DecompositionHandleAnalyze
    \/ RunEffect
    \/ HandleModelChange
    \/ FileParsed
    \/ FileReadError

SpecTS == InitTS /\ [][NextTS]_vars

(***************************************************************************)
(* Properties of inferFieldType (checked under SpecInfer).                 *)
(***************************************************************************)
FieldTypes == {"number", "string", "date"}

Returned == inferred # "pending"

\* the values left after the null filter, as a set of positions of the column
Kept == {i \in 1..Len(values) : values[i] \notin {Null, Undefined, Str(<<>>)}}

\* the per-value types observed in the column
ObservedTypes == {ValueType(values[i]) : i \in Kept}

\* C1: for a column with at least one value left after the null filter, the
\* result is the common per-value type when all values agree, 'number' when the
\* observed types are exactly {number, string}, and 'string' in every other
\* mixed case.
C1_Aggregation ==
    (Returned /\ Kept # {}) =>
        /\ \A t \in FieldTypes : ObservedTypes = {t} => inferred = t
        /\ ObservedTypes = {"number", "string"} => inferred = "number"
        /\ ObservedTypes \in {{"date", "number"}, {"date", "string"},
                              {"date", "number", "string"}} => inferred = "string"

C1_Witness ==
    Returned /\ ObservedTypes = {"date", "number", "string"} /\ inferred = "string"

IsNumericString(v) == v.t = "string" /\ v.s # <<>> /\ ~IsNaN(StringToNumber(v.s))

IsOpaqueString(v) == v.t = "string" /\ IsNaN(StringToNumber(v.s)) /\ ~DateParses(v.s)

\* C2 as stated: a column that mixes numeric-parsable strings with at least one
\* string that parses neither as a number nor as a date is inferred 'string'.
C2_AsStated ==
    (Returned /\ (\E i \in Kept : IsNumericString(values[i]))
              /\ (\E i \in Kept : IsOpaqueString(values[i])))
        => inferred = "string"

\* C2 amended: a column whose remaining values are numeric-parsable strings and
\* strings that parse neither as a number nor as a date, at least one of each
\* (the scenario ["1","2","abc","4"]), is inferred 'number'.
C2_Amended ==
    (Returned /\ (\E i \in Kept : IsNumericString(values[i]))
              /\ (\E i \in Kept : IsOpaqueString(values[i]))
              /\ (\A i \in Kept : IsNumericString(values[i]) \/ IsOpaqueString(values[i])))
        => inferred = "number"

C2_Witness == values = ScenarioColumn /\ inferred = "number"

\* C3: whatever the column of raw cell values, what inferFieldType returns is
\* one of 'number', 'string', 'date' (no conversion it applies can throw on a
\* cell value, so the call is total: Infer has no guard but the pending call).
C3_ReturnsFieldType == Returned => inferred \in FieldTypes

C3_Witness ==
    /\ inferred \in FieldTypes
    /\ \E i, j, k \in 1..Len(values) :
          values[i].t = "boolean" /\ values[j].t = "undefined" /\ values[k].t = "number"

\* the single value of a column that has exactly one value left after the filter
OnlyValue == values[CHOOSE i \in Kept : TRUE]

InExcelRange(v) == v.t = "number" /\ v.n > ExcelLo /\ v.n < ExcelHi

\* C4 as stated: a value is 'date' if it lies in the Excel serial-date range or
\* its string form is accepted by the date parser; otherwise 'number' if it is
\* a JS number or parses as one; otherwise 'string'.
C4_AsStated ==
    (Returned /\ Cardinality(Kept) = 1) =>
        inferred =
            IF InExcelRange(OnlyValue) \/ DateParses(ToStr(OnlyValue)) THEN "date"
            ELSE IF OnlyValue.t = "number" \/ ~IsNaN(ToNumber(OnlyValue)) THEN "number"
            ELSE "string"

\* C4 amended: a value is 'date' if it is a JS number strictly between 25569
\* and 50000; otherwise 'number' if it is a JS number or Number(value) is not
\* NaN; otherwise 'date' if its string form is accepted by the date parser;
\* otherwise 'string'.
C4_Amended ==
    (Returned /\ Cardinality(Kept) = 1) =>
        LET v == OnlyValue
            numeric == v.t = "number" \/ ~IsNaN(ToNumber(v))
        IN  /\ InExcelRange(v) => inferred = "date"
            /\ (~InExcelRange(v) /\ numeric) => inferred = "number"
            /\ (~numeric /\ DateParses(ToStr(v))) => inferred = "date"
            /\ (~numeric /\ ~DateParses(ToStr(v))) => inferred = "string"

C4_Witness == values = <<Null, NumV(2024)>> /\ inferred = "number"

\* C5: a column with no value left after null, undefined and '' are discarded
\* (the empty column included) is inferred 'string'.
C5_EmptyIsString == (Returned /\ Kept = {}) => inferred = "string"

C5_Witness ==
    /\ inferred = "string"
    /\ Len(values) = 3
    /\ {values[i] : i \in 1..3} = {Null, Undefined, Str(<<>>)}

(***************************************************************************)
(* Properties of the time-series panels (checked under SpecTS).            *)
(***************************************************************************)
\* the results the ARIMA panel handed to onAnalyze in the latest step
HandedResults ==
    IF mounted = "arima" /\ onAnalyzeCall.called THEN onAnalyzeCall.arg ELSE <<>>

\* a confidence that is a number of [0, 1]
InUnitInterval(c) == c.k = "ratio" /\ c.den > 0 /\ 0 <= c.num /\ c.num <= c.den

\* C6: every TimeSeriesResult the orchestration layer produces (the ARIMA
\* panel's handleAnalyze and TimeSeriesAnalysis.processData) has a confidence
\* within [0, 1].
C6_ConfidenceInUnitInterval ==
    /\ \A i \in 1..Len(HandedResults) : InUnitInterval(HandedResults[i].confidence)
    /\ \A i \in 1..Len(timeSeriesResults) :
          InUnitInterval(timeSeriesResults[i].confidence)

\* the ranges of the panels' inputs (min / max attributes)
MaxOrder == 5

MaxDifference == 2

MinPeriod == 2

MaxPeriod == 24

Within(x, lo, hi) == IsFinite(x) /\ lo <= x.v /\ x.v <= hi

\* C7: the parameters handed to the analyzer / onAnalyze satisfy p, q in
\* [0, 5], d in [0, 2], seasonal period in [2, 24] and alpha, beta, gamma in
\* [0, 1], after any sequence of edits in the three panels.
C7_ParamsWithinBounds ==
    /\ \A a \in analyzerArgs :
          /\ Within(a.params.p, 0, MaxOrder)
          /\ Within(a.params.q, 0, MaxOrder)
          /\ Within(a.params.d, 0, MaxDifference)
          /\ Within(a.params.seasonalPeriod, MinPeriod, MaxPeriod)
    /\ (mounted = "smoothing" /\ onAnalyzeCall.called) =>
          /\ Within(onAnalyzeCall.arg.alpha, 0, FloatScale)
          /\ Within(onAnalyzeCall.arg.beta, 0, FloatScale)
          /\ Within(onAnalyzeCall.arg.gamma, 0, FloatScale)
          /\ Within(onAnalyzeCall.arg.seasonalPeriods, MinPeriod, MaxPeriod)
    /\ (mounted = "decomposition" /\ onAnalyzeCall.called) =>
          Within(onAnalyzeCall.arg.period, MinPeriod, MaxPeriod)

\* an analysis has just been asked for on an empty series
AnalysedEmpty ==
    /\ data = <<>>
    /\ \/ mounted = "arima" /\ lastStep = "handleAnalyze"
       \/ mounted = "timeseries" /\ lastStep \in {"effect", "processData"}

C9_NonFiniteNeverAnalysed ==
    \A a \in analyzerArgs :
        \A i \in 1..Len(a.series) :
            IsFinite(a.series[i].value) /\ IsFinite(a.series[i].timestamp)

\* C10: processData dispatches by model name: whatever model is selected, the
\* run of processData runs that model's component.
C10_DispatchByName ==
    lastStep = "processData" =>
        \E a \in analyzerArgs : a.component = timeSeriesModel

\* the values of the points of data labelled name, in input order
ValuesOf(name) ==
    LET sel == SelectSeq(data, LAMBDA item : FieldName(item) = name)
    IN  [i \in 1..Len(sel) |-> sel[i].value]

\* the trend of the last TrendWindow points of vs
WindowTrend(vs) ==
    LET n == Len(vs)
        first == vs[IF n > TrendWindow THEN n - TrendWindow + 1 ELSE 1]
        final == vs[n]
    IN  IF NumLess(first, final) THEN "increasing"
        ELSE IF NumLess(final, first) THEN "decreasing"
        ELSE "stable"

\* processData has just published a result
Published == mounted = "timeseries" /\ lastStep = "processData" /\ error = "null"

\* C11: in every result the orchestration layer produces, trend is inferred
\* from the last N = 5 points of the series: increasing, decreasing or stable
\* as the last point of the window is above, below or equal to its first.
C11_TrendFromLastPoints ==
    /\ \A i \in 1..Len(HandedResults) :
          HandedResults[i].trend = WindowTrend(ValuesOf(HandedResults[i].field))
    /\ Published =>
          timeSeriesResults[1].trend =
              WindowTrend([i \in 1..Len(data) |-> data[i].value])

\* C12: the forecast returned for a series has length equal to the requested
\* horizon, the forecastPeriods handed to the panel.
C12_ForecastLengthIsHorizon ==
    \A i \in 1..Len(HandedResults) :
        Len(HandedResults[i].forecast) = forecastPeriods

\* a series of finite points shorter than p + d + q + 1
IsShort(vs, prm) ==
    /\ Len(vs) > 0
    /\ \A i \in 1..Len(vs) : IsFinite(vs[i])
    /\ IsFinite(prm.p) /\ IsFinite(prm.d) /\ IsFinite(prm.q)
    /\ Len(vs) < prm.p.v + prm.d.v + prm.q.v + 1

FlatAt(forecast, vs) ==
    Len(forecast) > 0 /\ \A i \in 1..Len(forecast) : forecast[i] = vs[Len(vs)]

C14_Seasonality ==
    /\ \A i \in 1..Len(HandedResults) :
          HandedResults[i].seasonality =
              IF params.seasonal THEN params.seasonalPeriod ELSE NullNum
    /\ \A i \in 1..Len(timeSeriesResults) :
          timeSeriesResults[i].seasonality =
              IF ProcessDataParams.seasonal THEN ProcessDataParams.seasonalPeriod
              ELSE NullNum

C14_Witness ==
    /\ mounted = "arima" /\ params.seasonal
    /\ Len(HandedResults) = 2
    /\ HandedResults[2].seasonality = Fin(0)

\* the label of a point: its field, 'value' when it has none
LabelOf(pt) == IF pt.field = "" THEN "value" ELSE pt.field

Labels == {LabelOf(data[i]) : i \in 1..Len(data)}

\* the points of data labelled l, stripped of the label, in input order
PointsOf(l) ==
    LET idx == {i \in 1..Len(data) : LabelOf(data[i]) = l}
        Nth(k) == CHOOSE i \in idx : Cardinality({j \in idx : j < i}) = k - 1
    IN  [m \in 1..Cardinality(idx) |->
            [timestamp |-> data[Nth(m)].timestamp, value |-> data[Nth(m)].value]]

RECURSIVE SumOfSizes(_)
SumOfSizes(results) ==
    IF results = <<>> THEN 0
    ELSE Len(Head(results).components.residual) + SumOfSizes(Tail(results))

MaxSheetRows == 2

\* createError(code, message)
createError(code, message) == [code |-> code, message |-> message]

\* the verdicts { isValid, error } validateFile may return
Verdicts ==
    { [isValid |-> TRUE, error |-> ""],
      [isValid |-> FALSE, error |-> ""],
      [isValid |-> FALSE, error |-> "File too large"] }

\* variant: the validation message replaced by a generic one
ValidationMessageGeneric(validation) == "Failed to process file"

\* validation.error || 'Invalid file'
ValidationMessage(validation) ==
    IF validation.error = "" THEN "Invalid file" ELSE validation.error

ToLowerCase(ch) ==
    CASE ch = "C" -> "c" [] ch = "S" -> "s" [] ch = "V" -> "v" [] OTHER -> ch

\* file.name.toLowerCase().split('.').pop()
Extension(name) ==
    LET dots == {i \in 1..Len(name) : name[i] = "."}
        start == IF dots = {} THEN 1
                 ELSE 1 + CHOOSE i \in dots : \A j \in dots : j <= i
    IN  [i \in 1..(Len(name) - start + 1) |-> ToLowerCase(name[start + i - 1])]

FileNames ==
    { <<"a", ".", "c", "s", "v">>, <<"a", ".", "C", "S", "V">>,
      <<"a", ".", "x", "l", "s", "x">>, <<"a", ".", "x", "l", "s">>,
      <<"a", ".", "t", "x", "t">> }

\* the rows a parser delivers: sequences of cell texts
RowPool ==
    { <<<<"a">>>>, <<<<>>>>, <<<<" ">>>>, <<<<"a">>, <<"1">>>>, <<<<"a">>, <<"a">>>> }

Sheets == UNION {[1..k -> RowPool] : k \in 0..MaxSheetRows}

IsExcel(name) == Extension(name) \in {<<"x", "l", "s", "x">>, <<"x", "l", "s">>}

\* the files handed to handleFileUpload; what follows a rejection by the
\* hook's validateFile does not depend on the rest of the file
Files2Upload ==
    { f \in [name : FileNames, rows : Sheets,
             fault : {"none", "unreadable", "nosheets"},
             hookValidation : Verdicts, procValidation : Verdicts] :
        /\ f.fault = "nosheets" => IsExcel(f.name)
        /\ ~f.hookValidation.isValid =>
              /\ f.rows = <<>> /\ f.fault = "none"
              /\ f.name = <<"a", ".", "c", "s", "v">>
        /\ ~f.procValidation.isValid => f.rows = <<>> /\ f.fault = "none" }

\* row[i], undefined beyond the row's end
CellAt(row, i) == IF i <= Len(row) THEN Str(row[i]) ELSE Undefined

\* headers.forEach((header, i) => fieldValues[header].push(row[i]))
RECURSIVE PushRow(_, _, _, _)
PushRow(fv, hs, row, i) ==
    IF i > Len(hs) THEN fv
    ELSE PushRow([fv EXCEPT ![hs[i]] = Append(@, CellAt(row, i))], hs, row, i + 1)

\* rows.forEach(row => ...)
RECURSIVE PushRows(_, _, _)
PushRows(fv, hs, rows) ==
    IF rows = <<>> THEN fv
    ELSE PushRows(PushRow(fv, hs, Head(rows), 1), hs, Tail(rows))

\* the fields the complete callback builds
CsvFields(hs, fv) ==
    [i \in 1..Len(hs) |->
        [name |-> hs[i], type |-> inferFieldType(fv[hs[i]]), value |-> fv[hs[i]]]]

\* the fields processExcelWithValidation builds from jsonData
ExcelFields(jsonData) ==
    LET hs == jsonData[1]
        rows == Tail(jsonData)
        columnValues(c) == [r \in 1..Len(rows) |-> CellAt(rows[r], c)]
    IN  [c \in 1..Len(hs) |->
            [name |-> hs[c], type |-> inferFieldType(columnValues(c)),
             value |-> columnValues(c)]]

Success(fields, name) ==
    [success |-> TRUE, error |-> "",
     data |-> [type |-> "csv", content |-> [fields |-> fields], name |-> name]]

Failed(message) == [success |-> FALSE, error |-> message, data |-> [none |-> TRUE]]

\* variant: the length of field.value is not looked at
validateProcessedDataAnyLength(d) ==
    /\ d.type # "" /\ d.name # <<>>
    /\ Len(d.content.fields) # 0
    /\ \A i \in 1..Len(d.content.fields) :
          LET field == d.content.fields[i] IN
          Len(field.name) > 0 /\ field.type \in {"number", "string", "date"}

validateProcessedData(d) ==
    /\ d.type # "" /\ d.name # <<>>
    /\ Len(d.content.fields) # 0
    /\ \A i \in 1..Len(d.content.fields) :
          LET field == d.content.fields[i] IN
          /\ Len(field.name) > 0
          /\ field.type \in {"number", "string", "date"}
          /\ Len(field.value) > 0

NoError == [code |-> "", message |-> ""]

Resolved(v) == [status |-> "resolved", value |-> v]

Rejected(e) == [status |-> "rejected", value |-> e]

\* processFile(file) up to its first await: validation, the worker, the switch
ProcessFileStart ==
    /\ processFileCalls' = processFileCalls + 1
    /\ UNCHANGED <<terminated, headers, fieldValues, rowCount, result>>
    /\ IF ~file.procValidation.isValid
       THEN /\ procOutcome' = Rejected(createError("INVALID_INPUT",
                                        ValidationMessage(file.procValidation)))
            /\ pc' = "settled"
            /\ UNCHANGED <<workers, unread>>
       ELSE /\ workers' = workers + 1
            /\ CASE Extension(file.name) = <<"c", "s", "v">> ->
                      /\ pc' = "parsing"
                      /\ unread' = file.rows
                      /\ UNCHANGED procOutcome
                 [] IsExcel(file.name) ->
                      /\ pc' = "reading"
                      /\ UNCHANGED <<unread, procOutcome>>
                 [] OTHER ->
                      /\ procOutcome' = Rejected(createError("INVALID_INPUT",
                                                  "Unsupported file type"))
                      /\ pc' = "settled"
                      /\ UNCHANGED unread

\* handleFileUpload(file) up to its first await
HandleFileUpload ==
    /\ pc = "idle"
    /\ IF ~file.hookValidation.isValid
       THEN LET err == createError("INVALID_INPUT",
                                   ValidationMessage(file.hookValidation))
            IN  /\ uploadError' = err
                /\ uploadPromise' = Rejected(err)
                /\ isUploading' = FALSE
                /\ pc' = "done"
                /\ UNCHANGED <<processFileCalls, workers, terminated, headers,
                               fieldValues, rowCount, unread, result, procOutcome>>
       ELSE /\ uploadError' = NoError
            /\ isUploading' = TRUE
            /\ ProcessFileStart
            /\ UNCHANGED uploadPromise
    /\ UNCHANGED <<file, onSuccessArg, svcVars, tsVars, workerVars, viewVars, diffVars>>

\* the chunk callback of processCSVWithValidation, on the next rows of the file
CsvChunk ==
    /\ pc = "parsing"
    /\ unread # <<>>
    /\ \E k \in 1..Len(unread) :
         LET rows == SubSeq(unread, 1, k)
             hs == headers \o rows[1]
         IN  /\ IF rowCount = 0
                THEN /\ headers' = hs
                     /\ fieldValues' =
                           PushRows([h \in {hs[i] : i \in 1..Len(hs)} |-> <<>>],
                                    hs, Tail(rows))
                ELSE /\ fieldValues' = PushRows(fieldValues, headers, rows)
                     /\ UNCHANGED headers
             /\ rowCount' = rowCount + k
             /\ unread' = SubSeq(unread, k + 1, Len(unread))
    /\ UNCHANGED <<file, pc, isUploading, uploadError, uploadPromise, onSuccessArg,
                   processFileCalls, workers, terminated, result, procOutcome,
                   svcVars, tsVars, workerVars, viewVars, diffVars>>

\* the complete callback
CsvComplete ==
    /\ pc = "parsing"
    /\ unread = <<>>
    /\ file.fault # "unreadable"
    /\ result' = IF Len(headers) = 0 THEN Failed("No headers found in CSV")
                 ELSE Success(CsvFields(headers, fieldValues), file.name)
    /\ pc' = "parsed"
    /\ UNCHANGED <<file, isUploading, uploadError, uploadPromise, onSuccessArg,
                   processFileCalls, workers, terminated, headers, fieldValues,
                   rowCount, unread, procOutcome,
                   svcVars, tsVars, workerVars, viewVars, diffVars>>

\* the error callback
CsvError ==
    /\ pc = "parsing"
    /\ file.fault = "unreadable"
    /\ result' = Failed("Unable to read file")
    /\ pc' = "parsed"
    /\ UNCHANGED <<file, isUploading, uploadError, uploadPromise, onSuccessArg,
                   processFileCalls, workers, terminated, headers, fieldValues,
                   rowCount, unread, procOutcome,
                   svcVars, tsVars, workerVars, viewVars, diffVars>>

\* processExcelWithValidation
ExcelRead ==
    /\ pc = "reading"
    /\ result' =
          CASE file.fault = "unreadable" -> Failed("Failed to process Excel file")
            [] file.fault = "nosheets" -> Failed("Excel file contains no sheets")
            [] file.fault = "none" /\ Len(file.rows) < 2 ->
                  Failed("Invalid or empty Excel file")
            [] OTHER -> Success(ExcelFields(file.rows), file.name)
    /\ pc' = "parsed"
    /\ UNCHANGED <<file, isUploading, uploadError, uploadPromise, onSuccessArg,
                   processFileCalls, workers, terminated, headers, fieldValues,
                   rowCount, unread, procOutcome,
                   svcVars, tsVars, workerVars, viewVars, diffVars>>

\* processFile after its await: the validation of the processed data
ProcessFileResume ==
    /\ pc = "parsed"
    /\ IF ~result.success \/ ~validateProcessedData(result.data)
       THEN /\ procOutcome' =
                  Rejected(createError("PROCESSING_FAILED",
                              IF result.error = "" THEN "Failed to process file"
                              ELSE result.error))
            /\ UNCHANGED terminated
       ELSE /\ terminated' = terminated + 1
            /\ procOutcome' = Resolved(result.data)
    /\ pc' = "settled"
    /\ UNCHANGED <<file, isUploading, uploadError, uploadPromise, onSuccessArg,
                   processFileCalls, workers, headers, fieldValues, rowCount,
                   unread, result, svcVars, tsVars, workerVars, viewVars, diffVars>>

\* handleFileUpload after its await
HookResume ==
    /\ pc = "settled"
    /\ IF procOutcome.status = "resolved"
       THEN /\ onSuccessArg' = [called |-> TRUE, arg |-> procOutcome.value]
            /\ uploadPromise' = Resolved(procOutcome.value)
            /\ UNCHANGED uploadError
       ELSE /\ uploadError' = procOutcome.value
            /\ uploadPromise' = Rejected(procOutcome.value)
            /\ UNCHANGED onSuccessArg
    /\ isUploading' = FALSE
    /\ pc' = "done"
    /\ UNCHANGED <<file, processFileCalls, workers, terminated, headers,
                   fieldValues, rowCount, unread, result, procOutcome,
                   svcVars, tsVars, workerVars, viewVars, diffVars>>

NoInfer == values = <<>> /\ inferred = "pending"

InitFile ==
    /\ NoInfer
    /\ NoPanel
    /\ NoSvc
    /\ NoWorker /\ NoView /\ NoDiff
    /\ file \in Files2Upload
    /\ pc = "idle"
    /\ isUploading = FALSE
    /\ uploadError = NoError
    /\ uploadPromise = Pending
    /\ onSuccessArg = NotCalled
    /\ processFileCalls = 0
    /\ workers = 0
    /\ terminated = 0
    /\ headers = <<>>
    /\ fieldValues = <<>>
    /\ rowCount = 0
    /\ unread = <<>>
    /\ result = [none |-> TRUE]
    /\ procOutcome = Pending

NextFile ==
    \/ HandleFileUpload
    \/ CsvChunk
    \/ CsvComplete
    \/ CsvError
    \/ ExcelRead
    \/ ProcessFileResume
    \/ HookResume

SpecFile == InitFile /\ [][NextFile]_vars

(***************************************************************************)
(* Properties of the file upload (checked under SpecFile).                 *)
(***************************************************************************)
AllValuesNonEmpty(d) ==
    /\ Len(d.content.fields) > 0
    /\ \A i \in 1..Len(d.content.fields) : Len(d.content.fields[i].value) > 0

ProcessFileSettled == pc \in {"settled", "done"} /\ processFileCalls > 0

\* C15: every field of a FileData that processFile returns has a non-empty
\* value array; a file with no data row (a CSV with only a header row, an
\* Excel sheet with fewer than two rows) makes processFile reject.
C15_ValueNonEmpty ==
    /\ procOutcome.status = "resolved" => AllValuesNonEmpty(procOutcome.value)
    /\ onSuccessArg.called => AllValuesNonEmpty(onSuccessArg.arg)
    /\ (ProcessFileSettled /\ Len(file.rows) < 2) => procOutcome.status = "rejected"

C15_Witness ==
    /\ pc = "done"
    /\ file.name = <<"a", ".", "c", "s", "v">>
    /\ file.rows = << <<<<"a">>>> >>
    /\ file.fault = "none"
    /\ procOutcome = Rejected(createError("PROCESSING_FAILED", "Failed to process file"))

\* the message a rejection by validateFile is reported with
StatedMessage(validation) ==
    IF validation.error # "" THEN validation.error ELSE "Invalid file"

\* C16: for a file that validateFile rejects, handleFileUpload never calls
\* processFile or onSuccess and processFile never creates a worker; the hook's
\* error state carries the validation message and the returned promise
\* rejects with it.
C16_ValidationFirst ==
    /\ (~file.hookValidation.isValid /\ pc # "idle") =>
          /\ pc = "done"
          /\ processFileCalls = 0
          /\ uploadError.code = "INVALID_INPUT"
          /\ uploadError.message = StatedMessage(file.hookValidation)
          /\ uploadPromise = Rejected(uploadError)
          /\ ~isUploading
    /\ (~file.hookValidation.isValid \/ ~file.procValidation.isValid) =>
          workers = 0 /\ ~onSuccessArg.called
    /\ (file.hookValidation.isValid /\ ~file.procValidation.isValid /\ pc = "done") =>
          /\ uploadError.code = "INVALID_INPUT"
          /\ uploadError.message = StatedMessage(file.procValidation)
          /\ uploadPromise = Rejected(uploadError)

C16_Witness ==
    /\ ~file.hookValidation.isValid
    /\ pc = "done"
    /\ uploadError.message = "File too large"
    /\ uploadPromise.status = "rejected"

(***************************************************************************)
(* useAnalysisWorker (src/src/utils/analysis/swot/types.ts).  A call of    *)
(* analyze() is named by its rank; the worker answers its messages in the  *)
(* order they were posted.                                                 *)
(***************************************************************************)
\* most analyze() calls of a behaviour
MaxCalls == 3

\* worker.onmessage = ...; worker.onerror = ...: the handlers close over the
\* resolve and reject of the call that assigns them
HandlerOf(call) == call

\* analyze(fields)
Analyze ==
    /\ Len(promises) < MaxCalls
    /\ LET call == Len(promises) + 1 IN
        /\ workerRef' = TRUE
        /\ promises' = Append(promises, [status |-> "pending", req |-> 0, kind |-> ""])
        /\ onmessage' = HandlerOf(call)
        /\ inbox' = Append(inbox, call)
    /\ UNCHANGED <<outbox, svcVars, tsVars, fileVars, viewVars, diffVars>>

\* the worker handles its next message: it posts a result or an error, or
\* fails with an uncaught error
WorkerHandles ==
    /\ workerRef
    /\ inbox # <<>>
    /\ \E kind \in {"result", "error", "onerror"} :
          outbox' = Append(outbox, [req |-> Head(inbox), kind |-> kind])
    /\ inbox' = Tail(inbox)
    /\ UNCHANGED <<workerRef, onmessage, promises, svcVars, tsVars, fileVars, viewVars, diffVars>>

\* worker.onmessage / worker.onerror runs on the worker's next event: the
\* resolve or reject it calls settles a promise that is still pending
HandleEvent ==
    /\ workerRef
    /\ outbox # <<>>
    /\ LET event == Head(outbox) IN
          promises' =
              IF promises[onmessage].status = "pending"
              THEN [promises EXCEPT ![onmessage] =
                        [status |-> IF event.kind = "result" THEN "resolved"
                                    ELSE "rejected",
                         req |-> event.req, kind |-> event.kind]]
              ELSE promises
    /\ outbox' = Tail(outbox)
    /\ UNCHANGED <<workerRef, onmessage, inbox, svcVars, tsVars, fileVars, viewVars, diffVars>>

\* cleanup(): the worker is terminated, its messages and events are dropped
Cleanup ==
    /\ workerRef
    /\ workerRef' = FALSE
    /\ onmessage' = 0
    /\ inbox' = <<>>
    /\ outbox' = <<>>
    /\ UNCHANGED <<promises, svcVars, tsVars, fileVars, viewVars, diffVars>>

InitWorker ==
    /\ NoInfer /\ NoPanel /\ NoFile /\ NoView /\ NoDiff /\ NoSvc
    /\ workerRef = FALSE
    /\ onmessage = 0
    /\ inbox = <<>>
    /\ outbox = <<>>
    /\ promises = <<>>

NextWorker ==
    \/ Analyze
    \/ WorkerHandles
    \/ HandleEvent
    \/ Cleanup

SpecWorker == InitWorker /\ [][NextWorker]_vars

\* C17: when analyze() calls overlap on one hook, each returned promise
\* settles with the worker's response to its own request.
C17_OwnResponse ==
    \A call \in 1..Len(promises) :
        promises[call].status # "pending" => promises[call].req = call

(***************************************************************************)
(* The effects of the text panels: SentimentAnalysisView                   *)
(* (src/unnamed/part_001), SentimentAnalysis (src/unnamed/part_007) and    *)
(* TextMining (.../categories/text/TextMining.tsx).  The inputs a panel is *)
(* given are numbered; an analysis is named by the number of its input.    *)
(***************************************************************************)
\* most inputs a panel is given while mounted
MaxInputs == 3

ViewKinds == {"SentimentAnalysisView", "SentimentAnalysis", "TextMining"}

\* the effect body, run at mount and when the input is replaced
RunViewEffect(gen, validTexts) ==
    CASE viewKind = "SentimentAnalysisView" ->
            \* analyzeSentiment(): await SentimentAnalyzer.analyzeSentiment(...)
            /\ inflight' = inflight \cup {gen}
            /\ UNCHANGED <<timer, loading, viewError, shownFor>>
      [] viewKind = "SentimentAnalysis" ->
            \* setLoading(true); setError(null); then the fetch, or the
            \* throw of 'No valid text data to analyze'
            /\ loading' = TRUE
            /\ viewError' = IF validTexts THEN "null"
                            ELSE "No valid text data to analyze"
            /\ inflight' = IF validTexts THEN inflight \cup {gen} ELSE inflight
            /\ UNCHANGED <<timer, shownFor>>
      [] OTHER ->
            \* return () => clearTimeout(timer) of the previous run, then
            \* setTimeout(() => analyzeText(), 500)
            /\ timer' = gen
            /\ UNCHANGED <<inflight, loading, viewError, shownFor>>

\* the parent hands the mounted panel a new input
ReplaceInput ==
    /\ viewMounted
    /\ input < MaxInputs
    /\ input' = input + 1
    /\ \E validTexts \in BOOLEAN : RunViewEffect(input + 1, validTexts)
    /\ UNCHANGED <<viewKind, viewMounted, lateWrites, svcVars, tsVars, fileVars, workerVars, diffVars>>

\* the panel unmounts: only TextMining's effect returns a cleanup
Unmount ==
    /\ viewMounted
    /\ viewMounted' = FALSE
    /\ timer' = IF viewKind = "TextMining" THEN 0 ELSE timer
    /\ UNCHANGED <<viewKind, input, inflight, loading, viewError, shownFor,
                   lateWrites, svcVars, tsVars, fileVars, workerVars, diffVars>>

\* the setState calls an analysis of input gen ends with: its result or its
\* error, and the loading flag (React drops them once the panel is unmounted)
WriteOutcome(gen, ok) ==
    /\ lateWrites' = IF ~viewMounted \/ gen # input THEN lateWrites \cup {gen}
                     ELSE lateWrites
    /\ IF viewMounted
       THEN /\ loading' = FALSE
            /\ shownFor' = IF ok THEN gen ELSE shownFor
            /\ viewError' = IF ok THEN viewError ELSE "failed"
       ELSE UNCHANGED <<loading, shownFor, viewError>>

\* the awaited analysis / fetch of an input settles
AnalysisSettles ==
    /\ \E gen \in inflight, ok \in BOOLEAN :
          /\ inflight' = inflight \ {gen}
          /\ WriteOutcome(gen, ok)
    /\ UNCHANGED <<viewKind, viewMounted, input, timer, svcVars, tsVars, fileVars,
                   workerVars, diffVars>>

\* TextMining: the debounce timer fires and analyzeText runs to its end
TimerFires ==
    /\ timer # 0
    /\ \E ok \in BOOLEAN : WriteOutcome(timer, ok)
    /\ timer' = 0
    /\ UNCHANGED <<viewKind, viewMounted, input, inflight, svcVars, tsVars, fileVars,
                   workerVars, diffVars>>

\* a panel just mounted, its effect run on the first input
InitView ==
    /\ NoInfer /\ NoPanel /\ NoFile /\ NoWorker /\ NoDiff /\ NoSvc
    /\ viewKind \in ViewKinds
    /\ viewMounted = TRUE
    /\ input = 1
    /\ loading = TRUE
    /\ shownFor = 0
    /\ lateWrites = {}
    /\ \E validTexts \in BOOLEAN :
        CASE viewKind = "SentimentAnalysisView" ->
                inflight = {1} /\ timer = 0 /\ viewError = "null"
          [] viewKind = "SentimentAnalysis" ->
                /\ inflight = IF validTexts THEN {1} ELSE {}
                /\ timer = 0
                /\ viewError = IF validTexts THEN "null"
                               ELSE "No valid text data to analyze"
          [] OTHER -> inflight = {} /\ timer = 1 /\ viewError = "null"

NextView ==
    \/ ReplaceInput
    \/ Unmount
    \/ AnalysisSettles
    \/ TimerFires

SpecView == InitView /\ [][NextView]_vars

\* C18: if a panel unmounts or its input is replaced before a pending
\* analysis completes, the late result is discarded: that analysis writes no
\* loading, error or result state afterwards.
C18_LateResultDiscarded == lateWrites = {}

(***************************************************************************)
(* Differencing and its inversion, step 1 and 4 of the ARIMA analyzer.     *)
(* The analyzer's source is not part of the tree: the two operations are   *)
(* modelled from the specification (section 4.3, 8).  Series values are JS *)
(* numbers, binary floating point: the model keeps the rounding of every   *)
(* subtraction and addition, at a reduced mantissa width.                  *)
(***************************************************************************)
\* width of the mantissa of a number, in bits
MantissaBits == 3

\* longest series differenced
MaxSeriesLen == 3

Abs(x) == IF x < 0 THEN 0 - x ELSE x

\* the spacing of the representable numbers around magnitude a
RECURSIVE Quantum(_, _)
Quantum(a, q) == IF a < (2 ^ MantissaBits) * q THEN q ELSE Quantum(a, 2 * q)

\* round to nearest representable number, ties to even
RoundToFloat(x) ==
    LET a == Abs(x)
        q == Quantum(a, 1)
        lo == (a \div q) * q
        r == a - lo
        m == IF 2 * r < q THEN lo
             ELSE IF 2 * r > q THEN lo + q
             ELSE IF (lo \div q) % 2 = 0 THEN lo ELSE lo + q
    IN  IF x < 0 THEN 0 - m ELSE m

FloatSub(a, b) == RoundToFloat(a - b)

FloatAdd(a, b) == RoundToFloat(a + b)

\* first differences of xs
Diff(xs) == [i \in 1..(Len(xs) - 1) |-> FloatSub(xs[i + 1], xs[i])]

\* differencing of order d: the differenced series and, per order, the
\* leading value retained (none when the series of that order is empty)
RECURSIVE Differencing(_, _)
Differencing(xs, d) ==
    IF d = 0 THEN [done |-> TRUE, series |-> xs, leads |-> <<>>]
    ELSE LET rest == Differencing(IF xs = <<>> THEN <<>> ELSE Diff(xs), d - 1)
         IN  [done |-> TRUE, series |-> rest.series,
              leads |-> <<IF xs = <<>> THEN <<>> ELSE <<xs[1]>>>> \o rest.leads]

\* variant: the cumulative sum started at 0 instead of the retained value
IntegrateFromZero(lead, ds) ==
    LET F[i \in 0..Len(ds)] ==
            IF i = 0 THEN <<0>> ELSE Append(F[i - 1], FloatAdd(F[i - 1][i], ds[i]))
    IN  F[Len(ds)]

\* the cumulative sum of ds started at the retained value
Integrate(lead, ds) ==
    LET F[i \in 0..Len(ds)] ==
            IF i = 0 THEN <<lead>> ELSE Append(F[i - 1], FloatAdd(F[i - 1][i], ds[i]))
    IN  F[Len(ds)]

\* inversion of the differencing: one integration per order, innermost first
RECURSIVE Inversion(_, _)
Inversion(ds, leads) ==
    IF leads = <<>> THEN ds
    ELSE LET inner == Inversion(ds, Tail(leads))
         IN  IF Head(leads) = <<>> THEN <<>> ELSE Integrate(Head(leads)[1], inner)

\* sample numbers: small ones, and the largest of each sign with unit spacing
Samples == {0, 1, 2 ^ MantissaBits - 1, 0 - 2 ^ MantissaBits}

DifferenceSeries ==
    /\ ~differenced.done
    /\ differenced' = Differencing(diffInput, diffOrder)
    /\ UNCHANGED <<diffInput, diffOrder, restored, svcVars, tsVars, fileVars, workerVars, viewVars>>

InvertDifferencing ==
    /\ differenced.done
    /\ ~restored.done
    /\ restored' = [done |-> TRUE,
                    series |-> Inversion(differenced.series, differenced.leads)]
    /\ UNCHANGED <<diffInput, diffOrder, differenced, svcVars, tsVars, fileVars, workerVars, viewVars>>

InitDiff ==
    /\ NoInfer /\ NoPanel /\ NoFile /\ NoWorker /\ NoView /\ NoSvc
    /\ diffInput \in UNION {[1..n -> Samples] : n \in 0..MaxSeriesLen}
    /\ diffOrder \in {0, 1, 2}
    /\ differenced = [done |-> FALSE, series |-> <<>>, leads |-> <<>>]
    /\ restored = [done |-> FALSE, series |-> <<>>]

NextDiff ==
    \/ DifferenceSeries
    \/ InvertDifferencing

SpecDiff == InitDiff /\ [][NextDiff]_vars

ExactDiff(xs) == [i \in 1..(Len(xs) - 1) |-> xs[i + 1] - xs[i]]

\* no difference up to order d needs rounding
RECURSIVE NoRounding(_, _)
NoRounding(xs, d) ==
    /\ \A i \in 1..Len(xs) : RoundToFloat(xs[i]) = xs[i]
    /\ (d > 0 /\ xs # <<>>) => NoRounding(ExactDiff(xs), d - 1)

TrendEpsilonInv == 4

\* longest series handed to analyzeTrend
MaxTrendLen == 3

\* n / d (d > 0) rounded to the nearest representable number, ties to even
RoundRatio(n, d) ==
    LET a == Abs(n)
        q == Quantum(a \div d, 1)
        lo == (a \div (q * d)) * q
        r == a - lo * d
        m == IF 2 * r < q * d THEN lo
             ELSE IF 2 * r > q * d THEN lo + q
             ELSE IF (lo \div q) % 2 = 0 THEN lo ELSE lo + q
    IN  IF n < 0 THEN 0 - m ELSE m

\* k * x for the factor k = num / den
FloatMul(k, x) == RoundRatio(k.num * x, k.den)

\* the series k * s
Scaled(k, s) == [i \in 1..Len(s) |-> FloatMul(k, s[i])]

\* variant: the threshold is an absolute change
determineTrendAbsolute(vs) ==
    IF Len(vs) < 2 THEN "stable"
    ELSE LET change == FloatSub(vs[Len(vs)], vs[1])
         IN  IF change > 1 THEN "up"
             ELSE IF change < 0 - 1 THEN "down"
             ELSE "stable"

\* 'up' / 'down' when the change from the first to the last value exceeds
\* the fraction 1 / TrendEpsilonInv of the first value, else 'stable'
determineTrend(vs) ==
    IF Len(vs) < 2 THEN "stable"
    ELSE LET change == FloatSub(vs[Len(vs)], vs[1])
             threshold == RoundRatio(Abs(vs[1]), TrendEpsilonInv)
         IN  IF change > threshold THEN "up"
             ELSE IF change < 0 - threshold THEN "down"
             ELSE "stable"

\* FinanceAnalyzer.analyzeTrend
analyzeTrend(vs) ==
    LET trend == determineTrend(vs)
    IN  IF trend = "up" THEN "increasing"
        ELSE IF trend = "down" THEN "decreasing"
        ELSE "stable"

\* sample numbers, all representable
TrendSamples == {0, 1, 3, 4, 0 - 7}

\* the factors k > 0: a half, and two whole factors
Factors == {[num |-> 1, den |-> 2], [num |-> 2, den |-> 1], [num |-> 3, den |-> 1]}

\* analyzeTrend is applied to the series and to the scaled series
AnalyzeTrend ==
    /\ ~trends.done
    /\ trends' = [done |-> TRUE,
                  plain |-> analyzeTrend(trendInput),
                  scaled |-> analyzeTrend(Scaled(trendFactor, trendInput))]
    /\ UNCHANGED <<trendInput, trendFactor, tsVars, extVars, exceptTrend>>

InitTrend ==
    /\ NoInfer /\ NoPanel /\ NoExt /\ NoDuck /\ NoUploads /\ NoRoute /\ NoQuery /\ NoAnalysis
    /\ trendInput \in UNION {[1..n -> TrendSamples] : n \in 0..MaxTrendLen}
    /\ trendFactor \in Factors
    /\ trends = [done |-> FALSE, plain |-> "", scaled |-> ""]

NextTrend == AnalyzeTrend

SpecTrend == InitTrend /\ [][NextTrend]_vars

ExactScaling(k, s) ==
    \A i \in 1..Len(s) :
        /\ (k.num * s[i]) % k.den = 0
        /\ RoundToFloat((k.num * s[i]) \div k.den) = (k.num * s[i]) \div k.den

\* the change and the threshold of determineTrend(s) are computed exactly
ExactComparison(s) ==
    Len(s) >= 2 =>
        /\ RoundToFloat(s[Len(s)] - s[1]) = s[Len(s)] - s[1]
        /\ Abs(s[1]) % TrendEpsilonInv = 0
        /\ RoundToFloat(Abs(s[1]) \div TrendEpsilonInv) = Abs(s[1]) \div TrendEpsilonInv

\* nothing is rounded in k * s, determineTrend(s) and determineTrend(k * s)
ExactArithmetic(k, s) ==
    /\ ExactScaling(k, s)
    /\ ExactComparison(s)
    /\ ExactComparison(Scaled(k, s))

MaxDuckCalls == 3

\* an initialize() call: awaiting initPromise, or settled; instance is the
\* state of the database when it settled
InitializeCall(status, err) ==
    [kind |-> "initialize", status |-> status, err |-> err,
     owner |-> FALSE, instance |-> dbInstance, afterFailure |-> FALSE]

\* the calls awaiting initPromise settle: the one that created it after its
\* catch / finally blocks, the others with initPromise's outcome
Resume(calls, ok, instance) ==
    [i \in 1..Len(calls) |->
        IF calls[i].status # "awaiting" THEN calls[i]
        ELSE [calls[i] EXCEPT
                !.status = IF ok THEN "resolved" ELSE "rejected",
                !.err = IF ok THEN ""
                        ELSE IF calls[i].owner THEN "Failed to initialize DuckDB"
                        ELSE "bundle error",
                !.instance = instance]]

\* initialize(), up to its first await or its return
Initialize ==
    /\ Len(duckCalls) < MaxDuckCalls
    /\ IF db
       THEN /\ duckCalls' = Append(duckCalls, InitializeCall("resolved", ""))
            /\ UNCHANGED <<isInitializing, initPromise, initStep>>
       ELSE IF isInitializing
       THEN /\ duckCalls' = Append(duckCalls,
                IF initPromise = "null" THEN InitializeCall("resolved", "")
                ELSE InitializeCall("awaiting", ""))
            /\ UNCHANGED <<isInitializing, initPromise, initStep>>
       ELSE /\ isInitializing' = TRUE
            /\ initPromise' = "pending"
            /\ initStep' = "getJsDelivrBundles"
            /\ duckCalls' = Append(duckCalls,
                [InitializeCall("awaiting", "") EXCEPT !.owner = TRUE])
    /\ UNCHANGED <<db, dbInstance, lastAttempt, exceptDuck, tsVars, extVars>>

\* await getJsDelivrBundles() resolves
BundlesFetched ==
    /\ initStep = "getJsDelivrBundles"
    /\ initStep' = "selectBundle"
    /\ UNCHANGED <<db, dbInstance, isInitializing, initPromise, lastAttempt, duckCalls,
                   exceptDuck, tsVars, extVars>>

\* await selectBundle() resolves: the worker and the database are created,
\* this.db is assigned, instantiate() is called and awaited
BundleSelected ==
    /\ initStep = "selectBundle"
    /\ db' = TRUE
    /\ dbInstance' = "instantiating"
    /\ initStep' = "instantiate"
    /\ UNCHANGED <<isInitializing, initPromise, lastAttempt, duckCalls,
                   exceptDuck, tsVars, extVars>>

\* await this.db.instantiate() resolves: initPromise resolves, the creating
\* call runs its finally block
Instantiated ==
    /\ initStep = "instantiate"
    /\ dbInstance' = "ready"
    /\ initStep' = "none"
    /\ initPromise' = "resolved"
    /\ isInitializing' = FALSE
    /\ lastAttempt' = "ok"
    /\ duckCalls' = Resume(duckCalls, TRUE, "ready")
    /\ UNCHANGED <<db, exceptDuck, tsVars, extVars>>

\* getJsDelivrBundles(), selectBundle() or new Worker() fails: initPromise
\* rejects, the creating call runs its catch and finally blocks
BundleFails ==
    /\ initStep \in {"getJsDelivrBundles", "selectBundle"}
    /\ initStep' = "none"
    /\ isInitializing' = FALSE
    /\ initPromise' = "null"
    /\ lastAttempt' = "failed"
    /\ duckCalls' = Resume(duckCalls, FALSE, dbInstance)
    /\ UNCHANGED <<db, dbInstance, exceptDuck, tsVars, extVars>>

\* this.db.instantiate() fails: as BundleFails, this.db having been assigned
InstantiateFails ==
    /\ initStep = "instantiate"
    /\ dbInstance' = "failed"
    /\ initStep' = "none"
    /\ isInitializing' = FALSE
    /\ initPromise' = "null"
    /\ lastAttempt' = "failed"
    /\ duckCalls' = Resume(duckCalls, FALSE, "failed")
    /\ UNCHANGED <<db, exceptDuck, tsVars, extVars>>

\* processData(fields), up to its first await: the check of this.db
ProcessData ==
    /\ Len(duckCalls) < MaxDuckCalls
    /\ duckCalls' = Append(duckCalls,
            [kind |-> "processData",
             status |-> IF db THEN "connecting" ELSE "rejected",
             err |-> IF db THEN "" ELSE "DuckDB not initialized",
             owner |-> FALSE, instance |-> dbInstance,
             afterFailure |-> (lastAttempt = "failed" /\ initStep = "none")])
    /\ UNCHANGED <<db, dbInstance, isInitializing, initPromise, initStep, lastAttempt,
                   exceptDuck, tsVars, extVars>>

InitDuck ==
    /\ NoInfer /\ NoPanel /\ NoExt /\ NoTrend /\ NoUploads /\ NoRoute /\ NoQuery /\ NoAnalysis
    /\ NoDuck

NextDuck ==
    \/ Initialize
    \/ BundlesFetched
    \/ BundleSelected
    \/ Instantiated
    \/ BundleFails
    \/ InstantiateFails
    \/ ProcessData

SpecDuck == InitDuck /\ [][NextDuck]_vars

\* C22: whenever a call to initialize() resolves, for any of several
\* overlapping callers, the database has completed instantiate().
C22_ResolvedMeansInstantiated ==
    \A i \in 1..Len(duckCalls) :
        (duckCalls[i].kind = "initialize" /\ duckCalls[i].status = "resolved")
            => duckCalls[i].instance = "ready"

\* C23: after initialize() failed at any step the manager is uninitialised
\* (db null, isInitializing false, initPromise null), and processData called
\* before a later initialize() rejects with 'DuckDB not initialized'.
C23_FailureLeavesUninitialised ==
    /\ (lastAttempt = "failed" /\ initStep = "none") =>
            (~db /\ ~isInitializing /\ initPromise = "null")
    /\ \A i \in 1..Len(duckCalls) :
            (duckCalls[i].kind = "processData" /\ duckCalls[i].afterFailure)
                => (duckCalls[i].status = "rejected"
                    /\ duckCalls[i].err = "DuckDB not initialized")

\* C24: every Worker processFile creates has been terminated by the time
\* processFile settles, whether it resolves or rejects.
C24_WorkersTerminated == ProcessFileSettled => terminated = workers

(***************************************************************************)
(* useFileUpload with overlapping handleFileUpload calls                   *)
(* (src/unnamed/part_000).  What processFile does with a file is modelled  *)
(* above; here its outcome is an input.                                    *)
(***************************************************************************)
\* most handleFileUpload calls made
MaxUploads == 4

\* the state of the upload other than isUploading and error
uploadRest ==
    <<file, pc, uploadPromise, onSuccessArg, processFileCalls, workers, terminated,
      headers, fieldValues, rowCount, unread, result, procOutcome>>

\* handleFileUpload(file) up to its await or, when validateFile rejects the
\* file, through its catch and finally blocks
StartUpload ==
    /\ Len(uploads) < MaxUploads
    /\ \E validation \in Verdicts :
         IF validation.isValid
         THEN /\ isUploading' = TRUE
              /\ uploadError' = NoError
              /\ uploads' = Append(uploads, "processing")
         ELSE /\ isUploading' = FALSE
              /\ uploadError' = createError("INVALID_INPUT", ValidationMessage(validation))
              /\ uploads' = Append(uploads, "rejected")
    /\ UNCHANGED <<uploadRest, exceptUploads, tsVars, workerVars, viewVars, diffVars>>

\* handleFileUpload after its await: processFile has settled
SettleUpload ==
    /\ \E i \in 1..Len(uploads), outcome \in {"resolved", "rejected"} :
         /\ uploads[i] = "processing"
         /\ uploads' = [uploads EXCEPT ![i] = outcome]
         /\ uploadError' = IF outcome = "rejected"
                           THEN createError("PROCESSING_FAILED", "Failed to process file")
                           ELSE uploadError
    /\ isUploading' = FALSE
    /\ UNCHANGED <<uploadRest, exceptUploads, tsVars, workerVars, viewVars, diffVars>>

InitUploads ==
    /\ NoInfer /\ NoPanel /\ NoExt /\ NoTrend /\ NoDuck /\ NoRoute /\ NoQuery /\ NoAnalysis
    /\ uploads = <<>>

NextUploads ==
    \/ StartUpload
    \/ SettleUpload

SpecUploads == InitUploads /\ [][NextUploads]_vars

\* C25: isUploading is true exactly while at least one handleFileUpload call
\* is in progress, also when uploads overlap.
C25_UploadingWhileInProgress ==
    isUploading = (\E i \in 1..Len(uploads) : uploads[i] = "processing")

(***************************************************************************)
(* RouteOptimization (src/unnamed/part_003).  Coordinates are in units of  *)
(* 0.0001 degree.                                                          *)
(***************************************************************************)
\* most waypoints added on top of the two sample waypoints
MaxAdded == 2

Waypoint(id, lat, lng) == [id |-> id, lat |-> lat, lng |-> lng]

\* the waypoints the mount effect loads
SampleWaypoints == <<Waypoint(1, 407128, 0 - 740060), Waypoint(2, 407328, 0 - 740260)>>

\* the coordinates Math.random() may give a new waypoint
NewCoordinates == {<<407078, 0 - 740010>>, <<407178, 0 - 740110>>}

\* [...ws].sort((a, b) => a[key] - b[key]): a stable sort
SortedBy(ws, key) ==
    LET Insert(sorted, w) ==
            LET k == Cardinality({i \in 1..Len(sorted) : sorted[i][key] <= w[key]})
            IN  SubSeq(sorted, 1, k) \o <<w>> \o SubSeq(sorted, k + 1, Len(sorted))
        F[i \in 0..Len(ws)] == IF i = 0 THEN <<>> ELSE Insert(F[i - 1], ws[i])
    IN  F[Len(ws)]

\* addWaypoint, the input holding blank or other text
AddWaypoint ==
    /\ nextId < 2 + MaxAdded
    /\ \E blank \in BOOLEAN, c \in NewCoordinates :
         IF blank
         THEN UNCHANGED <<waypoints, nextId>>
         ELSE /\ waypoints' = Append(waypoints, Waypoint(nextId + 1, c[1], c[2]))
              /\ nextId' = nextId + 1
    /\ UNCHANGED <<optimizedRoute, optimizationMethod, isOptimizing, routeTimer,
                   exceptRoute, tsVars, extVars>>

\* removeWaypoint(id)
RemoveWaypoint ==
    /\ \E i \in 1..Len(waypoints) :
         waypoints' = SelectSeq(waypoints, LAMBDA wp : wp.id # waypoints[i].id)
    /\ optimizedRoute' = <<>>
    /\ UNCHANGED <<optimizationMethod, isOptimizing, routeTimer, nextId,
                   exceptRoute, tsVars, extVars>>

\* the method select
SetOptimizationMethod ==
    /\ \E method \in {"time", "distance"} : optimizationMethod' = method
    /\ UNCHANGED <<waypoints, optimizedRoute, isOptimizing, routeTimer, nextId,
                   exceptRoute, tsVars, extVars>>

\* optimizeRoute; its button is disabled while isOptimizing
OptimizeRoute ==
    /\ ~isOptimizing
    /\ IF Len(waypoints) < 2
       THEN UNCHANGED <<isOptimizing, routeTimer>>
       ELSE /\ isOptimizing' = TRUE
            /\ routeTimer' = [armed |-> TRUE, waypoints |-> waypoints,
                              method |-> optimizationMethod]
    /\ UNCHANGED <<waypoints, optimizedRoute, optimizationMethod, nextId,
                   exceptRoute, tsVars, extVars>>

\* the callback of setTimeout(..., 1500)
RouteTimerFires ==
    /\ routeTimer.armed
    /\ optimizedRoute' =
          SortedBy(routeTimer.waypoints,
                   IF routeTimer.method = "distance" THEN "lat" ELSE "lng")
    /\ isOptimizing' = FALSE
    /\ routeTimer' = [armed |-> FALSE, waypoints |-> <<>>, method |-> ""]
    /\ UNCHANGED <<waypoints, optimizationMethod, nextId,
                   exceptRoute, tsVars, extVars>>

\* clearRoute; its button is disabled while optimizedRoute is empty
ClearRoute ==
    /\ optimizedRoute # <<>>
    /\ optimizedRoute' = <<>>
    /\ UNCHANGED <<waypoints, optimizationMethod, isOptimizing, routeTimer, nextId,
                   exceptRoute, tsVars, extVars>>

\* the component once its mount effect has loaded the sample waypoints
InitRoute ==
    /\ NoInfer /\ NoPanel /\ NoExt /\ NoTrend /\ NoDuck /\ NoUploads /\ NoQuery /\ NoAnalysis
    /\ waypoints = SampleWaypoints
    /\ optimizedRoute = <<>>
    /\ optimizationMethod = "time"
    /\ isOptimizing = FALSE
    /\ routeTimer = [armed |-> FALSE, waypoints |-> <<>>, method |-> ""]
    /\ nextId = 2

NextRoute ==
    \/ AddWaypoint
    \/ RemoveWaypoint
    \/ SetOptimizationMethod
    \/ OptimizeRoute
    \/ RouteTimerFires
    \/ ClearRoute

SpecRoute == InitRoute /\ [][NextRoute]_vars

\* the ids of a list of waypoints
IdsOf(ws) == {ws[i].id : i \in 1..Len(ws)}

\* C26: after any interleaving of addWaypoint, removeWaypoint, optimizeRoute,
\* clearRoute and the firing of the optimisation timer, optimizedRoute is
\* empty or a reordering of exactly the current waypoints.
C26_RouteOfCurrentWaypoints ==
    \/ optimizedRoute = <<>>
    \/ /\ Len(optimizedRoute) = Len(waypoints)
       /\ IdsOf(optimizedRoute) = IdsOf(waypoints)

(***************************************************************************)
(* NLQuerySection.handleQuery                                              *)
(* (src/src/components/analysis/categories/nlp/NLQuerySection.tsx).        *)
(* processNaturalLanguageQuery is imported from outside the tree: whether  *)
(* it resolves or rejects is an input.  Queries are numbered in the order  *)
(* they are first asked, 0 being a blank query.                            *)
(***************************************************************************)
\* the length the history is cut to
HistoryLimit == 5

\* most different queries asked: one more than the history can hold
MaxQueries == HistoryLimit + 1

\* most queries awaited at a time
MaxPending == 1

Includes(history, query) == \E i \in 1..Len(history) : history[i] = query

\* variant: the query is inserted whether or not the history holds it
UpdatedHistoryUnchecked(prev, query) ==
    SubSeq(<<query>> \o prev, 1,
           IF Len(prev) + 1 < HistoryLimit THEN Len(prev) + 1 ELSE HistoryLimit)

\* prev.includes(query) ? prev : [query, ...prev].slice(0, 5)
UpdatedHistory(prev, query) ==
    IF Includes(prev, query) THEN prev
    ELSE SubSeq(<<query>> \o prev, 1,
                IF Len(prev) + 1 < HistoryLimit THEN Len(prev) + 1 ELSE HistoryLimit)

\* handleQuery(query) up to its await
HandleQueryOf(query) ==
    IF query = 0
    THEN UNCHANGED queryVars
    ELSE /\ Len(pendingQueries) < MaxPending
         /\ queryLoading' = TRUE
         /\ response' = [kind |-> "null", query |-> 0]
         /\ pendingQueries' = Append(pendingQueries, query)
         /\ asked' = IF query > asked THEN query ELSE asked
         /\ UNCHANGED <<queryHistory, showExamples>>

\* the input, an example or an entry of the history is submitted
HandleQuery ==
    /\ \E query \in 0..(IF asked < MaxQueries THEN asked + 1 ELSE MaxQueries) :
         HandleQueryOf(query)
    /\ UNCHANGED <<exceptQuery, tsVars, extVars>>

\* handleRetry
HandleRetry ==
    /\ IF response.kind = "error"
       THEN HandleQueryOf(response.query)
       ELSE UNCHANGED queryVars
    /\ UNCHANGED <<exceptQuery, tsVars, extVars>>

\* handleQuery after its await: processNaturalLanguageQuery has settled
QuerySettles ==
    /\ \E i \in 1..Len(pendingQueries), ok \in BOOLEAN :
         LET query == pendingQueries[i]
         IN  /\ pendingQueries' = SubSeq(pendingQueries, 1, i - 1)
                                    \o SubSeq(pendingQueries, i + 1, Len(pendingQueries))
             /\ IF ok
                THEN /\ response' = [kind |-> "result", query |-> query]
                     /\ queryHistory' = UpdatedHistory(queryHistory, query)
                ELSE /\ response' = [kind |-> "error", query |-> query]
                     /\ UNCHANGED queryHistory
    /\ queryLoading' = FALSE
    /\ showExamples' = FALSE
    /\ UNCHANGED <<asked, exceptQuery, tsVars, extVars>>

InitQuery ==
    /\ NoInfer /\ NoPanel /\ NoExt /\ NoTrend /\ NoDuck /\ NoUploads /\ NoRoute /\ NoAnalysis
    /\ NoQuery

NextQuery ==
    \/ HandleQuery
    \/ HandleRetry
    \/ QuerySettles

SpecQuery == InitQuery /\ [][NextQuery]_vars

\* a query processed successfully in this step
SucceededNow(query) ==
    /\ Len(pendingQueries') < Len(pendingQueries)
    /\ response' = [kind |-> "result", query |-> query]

SpecViewLive ==
    /\ InitView
    /\ [][NextView]_vars
    /\ WF_vars(AnalysisSettles)
    /\ WF_vars(TimerFires)

\* C28: every run of the analysis effect of SentimentAnalysis eventually
\* sets loading to false (the request succeeding, failing or timing out, or
\* the field holding no valid text), unless the panel unmounts first.
C28_LoadingEnds ==
    (viewKind = "SentimentAnalysis" /\ viewMounted /\ loading)
        ~> (~loading \/ ~viewMounted)

(***************************************************************************)
(* validateDataset and validateField                                       *)
(* (src/src/utils/validation/dataValidation.ts), applied to the fields of  *)
(* the FileData processFile returns (checked under SpecFile).              *)
(***************************************************************************)
Invalid(message) == [isValid |-> FALSE, error |-> message]

Valid == [isValid |-> TRUE, error |-> ""]

\* validateField(field)
validateField(field) ==
    IF TrimRight(TrimLeft(field.name)) = <<>>
    THEN Invalid("Field name is required")
    ELSE IF field.type \notin {"number", "string", "date", "boolean"}
    THEN Invalid("Invalid type for field")
    ELSE IF Len(field.value) = 0
    THEN Invalid("No values provided for field")
    ELSE Valid

\* validateDataset(fields): the verdict on the first invalid field
validateDataset(fields) ==
    IF Len(fields) = 0 THEN Invalid("No data fields provided")
    ELSE LET bad == {i \in 1..Len(fields) : ~validateField(fields[i]).isValid}
         IN  IF bad = {} THEN Valid
             ELSE validateField(fields[CHOOSE i \in bad : \A j \in bad : i <= j])

\* C29: every FileData that processFile returns (that validateProcessedData
\* accepts) is accepted by validateDataset applied to its fields.
C29_ValidatorsAgree ==
    procOutcome.status = "resolved" =>
        validateDataset(procOutcome.value.content.fields).isValid

(***************************************************************************)
(* useAnalysis (src/unnamed/part_000).  The runs of the mutation are       *)
(* numbered; what AnalysisEngine.analyze gives is an input; the callbacks  *)
(* given to useMutation run for every run, the status is the latest run's. *)
(* The workers array is rebuilt by every render and is left out.           *)
(***************************************************************************)
\* most analyze() calls made
MaxRuns == 4

\* analyze(fields, category): analysisMutation.mutate, mutationFn up to its await
AnalyzeMutate ==
    /\ runs < MaxRuns
    /\ runs' = runs + 1
    /\ pendingRuns' = pendingRuns \cup {runs + 1}
    /\ progress' = 30
    /\ mutationStatus' = "pending"
    /\ UNCHANGED <<analysisError, analysisResults, exceptAnalysis, tsVars, extVars>>

\* engine.analyze resolves: the rest of mutationFn, then onSuccess
AnalysisResolves ==
    /\ \E run \in pendingRuns :
         /\ pendingRuns' = pendingRuns \ {run}
         /\ analysisResults' = run
         /\ mutationStatus' = IF run = runs /\ mutationStatus = "pending"
                              THEN "success" ELSE mutationStatus
    /\ progress' = 100
    /\ UNCHANGED <<analysisError, runs, exceptAnalysis, tsVars, extVars>>

\* engine.analyze rejects: onError
AnalysisRejects ==
    /\ \E run \in pendingRuns :
         /\ pendingRuns' = pendingRuns \ {run}
         /\ mutationStatus' = IF run = runs /\ mutationStatus = "pending"
                              THEN "error" ELSE mutationStatus
    /\ analysisError' = "Analysis failed"
    /\ UNCHANGED <<analysisResults, progress, runs, exceptAnalysis, tsVars, extVars>>

\* reset(): analysisMutation.reset
ResetAnalysis ==
    /\ mutationStatus' = "idle"
    /\ UNCHANGED <<analysisError, analysisResults, progress, pendingRuns, runs,
                   exceptAnalysis, tsVars, extVars>>

InitAnalysis ==
    /\ NoInfer /\ NoPanel /\ NoExt /\ NoTrend /\ NoDuck /\ NoUploads /\ NoRoute /\ NoQuery
    /\ NoAnalysis

NextAnalysis ==
    \/ AnalyzeMutate
    \/ AnalysisResolves
    \/ AnalysisRejects
    \/ ResetAnalysis

SpecAnalysis == InitAnalysis /\ [][NextAnalysis]_vars

\* C30: an error left by a failed analysis is cleared when a new analysis
\* is started or reset() is called; after a failed run followed by a
\* successful run, error is null and results holds the successful run's data.
C30_ErrorCleared ==
    /\ mutationStatus \in {"idle", "pending"} => analysisError = "null"
    /\ mutationStatus = "success" => (analysisError = "null" /\ analysisResults # 0)

=============================================================================
